---- MODULE Spec2Model ----
(***************************************************************************)
(* A model of the components of the microservice template:                 *)
(*   - the generic in-memory repository (platform/repository/memory),      *)
(*     a map guarded by a sync.RWMutex, instantiated with pointer types;   *)
(*   - the health manager (platform/health), a slice of checkers guarded   *)
(*     by a sync.RWMutex;                                                  *)
(*   - the readiness handler (adapters/http/health);                       *)
(*   - the example domain: its errors, the in-memory example repository,   *)
(*     the use case and the HTTP handlers with their error mapping;        *)
(*   - the database Lifecycle (adapters/database), a connection guarded    *)
(*     by a sync.Mutex.                                                    *)
(* Goroutines are the processes of Procs. Every method is split at the     *)
(* points where another goroutine can interleave: taking the mutex, each   *)
(* access to the shared state inside the critical section, and the         *)
(* deferred unlock that precedes the return.                               *)
(***************************************************************************)
EXTENDS Integers, Sequences, FiniteSets, TLC

\* ------------------------------------------------------------------ bounds
NumProcs == 2
MaxVersions == 2
MaxSaves == 2
MaxCheckers == 2
MaxConns == 2
MaxCycles == 2
MaxRequests == 3

Procs == 1..NumProcs
NoProc == 0

\* Identifiers: the empty string is an ordinary key of a Go map.
IDs == {"", "a"}
Names == {"n0", "n1"}

\* ----------------------------------------------------------- the entities
\* The repository is instantiated with pointer types (*TestEntity,
\* *example.Entity): a value of T is a reference to a heap object. An entity
\* of the model is such a reference: ref tells apart distinct objects that
\* carry the same identifier. The Name field of the object lives in objName.
Entities == [ID : IDs, ref : 1..MaxVersions]
NoEntity == [ID |-> "", ref |-> 0]

GetID(e) == e.ID

ErrNotFound == "entity not found"
ErrAlreadyExists == "entity already exists"
NoError == "nil"

EmptyMap == [x \in {} |-> NoEntity]
NoReturn == [val |-> NoEntity, err |-> NoError]

VARIABLES
    data,      \* Repository.data: map[string]T
    writer,    \* Repository.mu: the goroutine holding the write lock
    readers,   \* Repository.mu: the goroutines holding a read lock
    pc,        \* where each goroutine is in the method it runs
    entity,    \* the entity argument of Save / Update
    id,        \* the id argument of GetByID / Delete; the local id of Save / Update
    ret,       \* the values the method is about to return
    before,    \* data as it was when the method entered its critical section
    objName,   \* the Name field of every heap object
    saveOk,    \* per identifier, the number of Save calls that returned nil
    saveDup,   \* per identifier, the number of Save calls that returned ErrAlreadyExists
    okEntity,  \* per identifier, the entity of the last Save that returned nil
    touched,   \* per identifier, whether an Update or Delete has written it
    checkers,  \* Manager.checkers: []Checker
    hwriter,   \* Manager.mu: the goroutine holding the write lock
    hreaders,  \* Manager.mu: the goroutines holding a read lock
    hpc,       \* where each goroutine is in the Manager method it runs
    hop,       \* the Manager method each goroutine runs
    harg,      \* the checker argument of Register
    hlocal,    \* the local slice: the one append reads, the copy CheckAll ranges over
    hi,        \* the position of CheckAll's range loop in its copy
    hresults,  \* CheckAll's local results map
    hret,      \* the value the method is about to return
    hcalls,    \* per goroutine, the Check calls its round has made: <<position, ctx>>
    hregistered, \* the number of Register calls that have returned
    hreports,  \* per goroutine, what the Check calls of its round returned, in order
    hstart,    \* per goroutine, how many Register calls had returned when its round began
    hdone,     \* the checkers of the Register calls that have returned, in order
    rpc,       \* where the readiness handler is in Check
    rmap,      \* ReadinessHandler.Check: healthResults
    rkeys,     \* the names the range over healthResults has still to visit, in order
    roverall,  \* ReadinessHandler.Check: overallStatus
    rchecks,   \* ReadinessHandler.Check: checks
    rnotes,    \* ReadinessHandler.Check: notes
    rcode,     \* the HTTP status the handler responded with (0: none yet)
    epc,       \* where the request to an example handler is
    eop,       \* the handler serving it: GetEntity or CreateEntity
    eargs,     \* the id, email and name of the request
    eentity,   \* CreateEntity: the entity NewEntity made
    ecalls,    \* the calls the use case has made, in order, with the error each returned
    euret,     \* what the use case returned to the handler
    eherr,     \* the error the handler returned to ErrorHandler
    eresp,     \* the response written: status and body
    ldb,       \* Lifecycle.db: the connection held (0: nil)
    lmu,       \* Lifecycle.mu: the goroutine holding it
    lpc,       \* where each goroutine is in the Lifecycle method it runs
    lnew,      \* Start: the local db
    lctx,      \* Stop: whether the context passed to it is done
    lheld,     \* Stop: the connection the Lifecycle held when Stop took the lock
    lret,      \* the values the method is about to return
    lcloser,   \* per Stop caller, the goroutine its Stop spawned to close
    lcerr,     \* what that goroutine sent on the done channel
    lnext,     \* how many connections postgres.New has opened
    lcloses,   \* per connection, how many times Close was called on it
    llast,     \* the error of the last Stop that returned, until a Start installs a connection
    lstart,    \* what the last Start returned: "never", "running", or its error
    ltried,    \* the connection the last Start opened
    lgoal,     \* per Stop caller, the connection in the field when its goroutine was spawned
    lhit,      \* per Stop caller, the connection its goroutine called Close on
    lchk,      \* DatabaseChecker.Check: whether the caller's Connection() is the checker's
    lconn,     \* DatabaseChecker.Check: the local db
    lres,      \* DatabaseChecker.Check: the result it is about to return
    lsaw,      \* whether the Lifecycle was unstarted, failed or stopped when Check read it
    \* ---- the HTTP Server (Start / Stop around one http.Server)
    spc,       \* where the caller of Start / Stop is
    sctx,      \* Start: whether its context is live or done
    sfree,     \* Start: whether net.Listen found the address free
    sret,      \* the error the method is about to return
    slast,     \* the last call that returned, and how
    sreg,      \* the calls so far were Start (live context, free port) and Stop in turn
    sshut,     \* http.Server: Shutdown has been called on it
    sln,       \* per Start that listened, the state of its listener
    sgo,       \* per Start that listened, the goroutine running Serve on it
    scycle,    \* how many Starts have listened
    \* ---- the metrics middleware around Recovery and the handlers
    mpc,       \* per request, where it is in the middleware chain
    minflight, \* the RequestsInFlight up-down counter
    mstatus    \* per request, the status written to its response

storeVars == <<data, writer, readers, pc, entity, id, ret, before>>
histVars == <<saveOk, saveDup, okEntity, touched>>
healthVars == <<checkers, hwriter, hreaders, hpc, hop, harg, hlocal, hi, hresults,
                hret, hcalls, hregistered, hreports, hstart, hdone>>
readyVars == <<rpc, rmap, rkeys, roverall, rchecks, rnotes, rcode>>
exampleVars == <<epc, eop, eargs, eentity, ecalls, euret, eherr, eresp>>
lifeHist == <<lstart, ltried, lgoal, lhit>>
checkVars == <<lchk, lconn, lres, lsaw>>
lifeVars == <<ldb, lmu, lpc, lnew, lctx, lheld, lret, lcloser, lcerr, lnext, lcloses, llast,
              lifeHist, checkVars>>
serverVars == <<spc, sctx, sfree, sret, slast, sreg, sshut, sln, sgo, scycle>>
metricVars == <<mpc, minflight, mstatus>>
extVars == <<readyVars, exampleVars, lifeVars, serverVars, metricVars>>
outsideReady == <<storeVars, objName, histVars, healthVars, exampleVars, lifeVars,
                  serverVars, metricVars>>
outsideExample == <<storeVars, objName, histVars, healthVars, readyVars, lifeVars,
                    serverVars, metricVars>>
outsideLife == <<storeVars, objName, histVars, healthVars, readyVars, exampleVars,
                 serverVars, metricVars>>
outsideServer == <<storeVars, objName, histVars, healthVars, readyVars, exampleVars,
                   lifeVars, metricVars>>
outsideMetrics == <<storeVars, objName, histVars, healthVars, readyVars, exampleVars,
                    lifeVars, serverVars>>
vars == <<data, writer, readers, pc, entity, id, ret, before, objName,
          saveOk, saveDup, okEntity, touched,
          checkers, hwriter, hreaders, hpc, hop, harg, hlocal, hi, hresults,
          hret, hcalls, hregistered, hreports, hstart, hdone,
          rpc, rmap, rkeys, roverall, rchecks, rnotes, rcode,
          epc, eop, eargs, eentity, ecalls, euret, eherr, eresp,
          ldb, lmu, lpc, lnew, lctx, lheld, lret, lcloser, lcerr, lnext, lcloses, llast,
          lstart, ltried, lgoal, lhit, lchk, lconn, lres, lsaw,
          spc, sctx, sfree, sret, slast, sreg, sshut, sln, sgo, scycle,
          mpc, minflight, mstatus>>

\* ------------------------------------------------------------ map helpers
Has(m, k) == k \in DOMAIN m
Put(m, k, v) == [x \in DOMAIN m \cup {k} |-> IF x = k THEN v ELSE m[x]]
Remove(m, k) == [x \in DOMAIN m \ {k} |-> m[x]]
Len_(m) == Cardinality(DOMAIN m)

\* The slices built when the slice is made with length len(m) instead of
\* length 0 and capacity len(m): len(m) zero values, then the elements.
RangeSlicesPadded(m) ==
    {[i \in 1..(2 * Len_(m)) |-> IF i <= Len_(m) THEN NoEntity ELSE m[f[i - Len_(m)]]] :
        f \in {g \in [1..Len_(m) -> DOMAIN m] :
                  \A i, j \in 1..Len_(m) : i # j => g[i] # g[j]}}

\* All the slices a range over the map can build: Go iterates a map in an
\* unspecified order, and appends one element per key.
RangeSlices(m) ==
    {s \in [1..Len_(m) -> {m[k] : k \in DOMAIN m}] :
        \E f \in [1..Len_(m) -> DOMAIN m] :
            /\ \A i, j \in 1..Len_(m) : i # j => f[i] # f[j]
            /\ \A i \in 1..Len_(m) : s[i] = m[f[i]]}

\* ------------------------------------------------------------- sync.RWMutex
CanLock == writer = NoProc /\ readers = {}
CanRLock == writer = NoProc

\* RLock that does not wait for the writer to leave.
RLockNoWait(p) == readers' = readers \cup {p} /\ UNCHANGED writer

Lock(p) == CanLock /\ writer' = p /\ UNCHANGED readers
RLock(p) == CanRLock /\ readers' = readers \cup {p} /\ UNCHANGED writer
Unlock(p) == writer' = (IF writer = p THEN NoProc ELSE writer) /\ UNCHANGED readers
RUnlock(p) == readers' = readers \ {p} /\ UNCHANGED writer

\* The Save calls with identifier k that have been issued and have not returned.
SavesInFlight(k) ==
    Cardinality({p \in Procs : pc[p] \in {"SaveCheck", "SaveInsert", "SaveUnlock"}
                               /\ GetID(entity[p]) = k})
SaveCalls(k) == saveOk[k] + saveDup[k] + SavesInFlight(k)

\* The record of the Save calls made on an identifier: kept from the creation
\* of the store until an Update or a Delete first writes the identifier.
Record(k, e, err) ==
    IF touched[k] THEN UNCHANGED <<saveOk, saveDup, okEntity>>
    ELSE IF err = NoError
        THEN /\ saveOk' = [saveOk EXCEPT ![k] = @ + 1]
             /\ okEntity' = [okEntity EXCEPT ![k] = e]
             /\ UNCHANGED saveDup
        ELSE /\ saveDup' = [saveDup EXCEPT ![k] = @ + 1]
             /\ UNCHANGED <<saveOk, okEntity>>

Touch(k) ==
    /\ touched' = [touched EXCEPT ![k] = TRUE]
    /\ saveOk' = [saveOk EXCEPT ![k] = 0]
    /\ saveDup' = [saveDup EXCEPT ![k] = 0]
    /\ okEntity' = [okEntity EXCEPT ![k] = NoEntity]

Enter(p, label) ==
    /\ pc[p] = "idle"
    /\ pc' = [pc EXCEPT ![p] = label]
    /\ before' = [before EXCEPT ![p] = data]

Leave(p) ==
    /\ pc' = [pc EXCEPT ![p] = "idle"]
    /\ entity' = [entity EXCEPT ![p] = NoEntity]
    /\ id' = [id EXCEPT ![p] = ""]
    /\ ret' = [ret EXCEPT ![p] = NoReturn]
    /\ before' = [before EXCEPT ![p] = EmptyMap]

StoreInit ==
    /\ data = EmptyMap
    /\ writer = NoProc
    /\ readers = {}
    /\ pc = [p \in Procs |-> "idle"]
    /\ entity = [p \in Procs |-> NoEntity]
    /\ id = [p \in Procs |-> ""]
    /\ ret = [p \in Procs |-> NoReturn]
    /\ before = [p \in Procs |-> EmptyMap]
    /\ objName = [e \in Entities |-> "n0"]
    /\ saveOk = [k \in IDs |-> 0]
    /\ saveDup = [k \in IDs |-> 0]
    /\ okEntity = [k \in IDs |-> NoEntity]
    /\ touched = [k \in IDs |-> FALSE]

\* ------------------------------------------------------------------- Save
\* Save taking the shared lock instead of the exclusive one.
SaveLockShared(p, e) ==
    /\ touched[GetID(e)] \/ SaveCalls(GetID(e)) < MaxSaves
    /\ Enter(p, "SaveCheck")
    /\ RLock(p)
    /\ entity' = [entity EXCEPT ![p] = e]
    /\ UNCHANGED <<data, id, ret, objName, histVars, healthVars, extVars>>

SaveLock(p, e) ==
    /\ touched[GetID(e)] \/ SaveCalls(GetID(e)) < MaxSaves
    /\ Enter(p, "SaveCheck")
    /\ Lock(p)
    /\ entity' = [entity EXCEPT ![p] = e]
    /\ UNCHANGED <<data, id, ret, objName, histVars, healthVars, extVars>>

\* Save writing the entity before it looks for the identifier.
SaveCheckOverwrite(p) ==
    /\ pc[p] = "SaveCheck"
    /\ id' = [id EXCEPT ![p] = GetID(entity[p])]
    /\ IF Has(data, GetID(entity[p]))
          THEN /\ ret' = [ret EXCEPT ![p] = [val |-> NoEntity, err |-> ErrAlreadyExists]]
               /\ pc' = [pc EXCEPT ![p] = "SaveUnlock"]
               /\ data' = Put(data, GetID(entity[p]), entity[p])
          ELSE /\ pc' = [pc EXCEPT ![p] = "SaveInsert"]
               /\ UNCHANGED <<ret, data>>
    /\ UNCHANGED <<writer, readers, entity, before, objName, histVars, healthVars, extVars>>

SaveCheck(p) ==
    /\ pc[p] = "SaveCheck"
    /\ id' = [id EXCEPT ![p] = GetID(entity[p])]
    /\ IF Has(data, GetID(entity[p]))
          THEN /\ ret' = [ret EXCEPT ![p] = [val |-> NoEntity, err |-> ErrAlreadyExists]]
               /\ pc' = [pc EXCEPT ![p] = "SaveUnlock"]
          ELSE /\ pc' = [pc EXCEPT ![p] = "SaveInsert"]
               /\ UNCHANGED ret
    /\ UNCHANGED <<data, writer, readers, entity, before, objName, histVars, healthVars, extVars>>

\* Save assigning a fresh one-element map instead of adding to the map.
SaveInsertFresh(p) ==
    /\ pc[p] = "SaveInsert"
    /\ data' = Put(EmptyMap, id[p], entity[p])
    /\ ret' = [ret EXCEPT ![p] = [val |-> NoEntity, err |-> NoError]]
    /\ pc' = [pc EXCEPT ![p] = "SaveUnlock"]
    /\ UNCHANGED <<writer, readers, entity, id, before, objName, histVars, healthVars, extVars>>

SaveInsert(p) ==
    /\ pc[p] = "SaveInsert"
    /\ data' = Put(data, id[p], entity[p])
    /\ ret' = [ret EXCEPT ![p] = [val |-> NoEntity, err |-> NoError]]
    /\ pc' = [pc EXCEPT ![p] = "SaveUnlock"]
    /\ UNCHANGED <<writer, readers, entity, id, before, objName, histVars, healthVars, extVars>>

SaveUnlock(p) ==
    /\ pc[p] = "SaveUnlock"
    /\ Unlock(p)
    /\ Leave(p)
    /\ Record(id[p], entity[p], ret[p].err)
    /\ UNCHANGED <<data, objName, touched, healthVars, extVars>>

\* ---------------------------------------------------------------- GetByID
GetByIDResult(m, k) ==
    IF ~Has(m, k) THEN [val |-> NoEntity, err |-> ErrNotFound]
                  ELSE [val |-> m[k], err |-> NoError]

GetByIDLock(p, k) ==
    /\ Enter(p, "GetByIDRead")
    /\ RLock(p)
    /\ id' = [id EXCEPT ![p] = k]
    /\ UNCHANGED <<data, entity, ret, objName, histVars, healthVars, extVars>>

\* GetByID leaving the zero value in the map under a key it did not find.
GetByIDReadInsert(p) ==
    /\ pc[p] = "GetByIDRead"
    /\ ret' = [ret EXCEPT ![p] = GetByIDResult(data, id[p])]
    /\ data' = IF Has(data, id[p]) THEN data ELSE Put(data, id[p], NoEntity)
    /\ pc' = [pc EXCEPT ![p] = "GetByIDUnlock"]
    /\ UNCHANGED <<writer, readers, entity, id, before, objName, histVars, healthVars, extVars>>

GetByIDRead(p) ==
    /\ pc[p] = "GetByIDRead"
    /\ ret' = [ret EXCEPT ![p] = GetByIDResult(data, id[p])]
    /\ pc' = [pc EXCEPT ![p] = "GetByIDUnlock"]
    /\ UNCHANGED <<data, writer, readers, entity, id, before, objName, histVars, healthVars, extVars>>

GetByIDUnlock(p) ==
    /\ pc[p] = "GetByIDUnlock"
    /\ RUnlock(p)
    /\ Leave(p)
    /\ UNCHANGED <<data, objName, histVars, healthVars, extVars>>

\* ----------------------------------------------------------------- Update
UpdateLock(p, e) ==
    /\ Enter(p, "UpdateCheck")
    /\ Lock(p)
    /\ entity' = [entity EXCEPT ![p] = e]
    /\ UNCHANGED <<data, id, ret, objName, histVars, healthVars, extVars>>

\* Update without the existence check: an upsert.
UpdateCheckUpsert(p) ==
    /\ pc[p] = "UpdateCheck"
    /\ id' = [id EXCEPT ![p] = GetID(entity[p])]
    /\ pc' = [pc EXCEPT ![p] = "UpdateWrite"]
    /\ UNCHANGED <<data, ret, writer, readers, entity, before, objName, histVars, healthVars, extVars>>

UpdateCheck(p) ==
    /\ pc[p] = "UpdateCheck"
    /\ id' = [id EXCEPT ![p] = GetID(entity[p])]
    /\ IF ~Has(data, GetID(entity[p]))
          THEN /\ ret' = [ret EXCEPT ![p] = [val |-> NoEntity, err |-> ErrNotFound]]
               /\ pc' = [pc EXCEPT ![p] = "UpdateUnlock"]
          ELSE /\ pc' = [pc EXCEPT ![p] = "UpdateWrite"]
               /\ UNCHANGED ret
    /\ UNCHANGED <<data, writer, readers, entity, before, objName, histVars, healthVars, extVars>>

\* Update that reports success without writing the map.
UpdateWriteSkip(p) ==
    /\ pc[p] = "UpdateWrite"
    /\ ret' = [ret EXCEPT ![p] = [val |-> NoEntity, err |-> NoError]]
    /\ pc' = [pc EXCEPT ![p] = "UpdateUnlock"]
    /\ Touch(id[p])
    /\ UNCHANGED <<data, writer, readers, entity, id, before, objName, healthVars, extVars>>

UpdateWrite(p) ==
    /\ pc[p] = "UpdateWrite"
    /\ data' = Put(data, id[p], entity[p])
    /\ ret' = [ret EXCEPT ![p] = [val |-> NoEntity, err |-> NoError]]
    /\ pc' = [pc EXCEPT ![p] = "UpdateUnlock"]
    /\ Touch(id[p])
    /\ UNCHANGED <<writer, readers, entity, id, before, objName, healthVars, extVars>>

UpdateUnlock(p) ==
    /\ pc[p] = "UpdateUnlock"
    /\ Unlock(p)
    /\ Leave(p)
    /\ UNCHANGED <<data, objName, histVars, healthVars, extVars>>

\* ----------------------------------------------------------------- Delete
DeleteLock(p, k) ==
    /\ Enter(p, "DeleteCheck")
    /\ Lock(p)
    /\ id' = [id EXCEPT ![p] = k]
    /\ UNCHANGED <<data, entity, ret, objName, histVars, healthVars, extVars>>

DeleteCheck(p) ==
    /\ pc[p] = "DeleteCheck"
    /\ IF ~Has(data, id[p])
          THEN /\ ret' = [ret EXCEPT ![p] = [val |-> NoEntity, err |-> ErrNotFound]]
               /\ pc' = [pc EXCEPT ![p] = "DeleteUnlock"]
          ELSE /\ pc' = [pc EXCEPT ![p] = "DeleteRemove"]
               /\ UNCHANGED ret
    /\ UNCHANGED <<data, writer, readers, entity, id, before, objName, histVars, healthVars, extVars>>

\* Delete that empties the map instead of removing one key.
DeleteRemoveClear(p) ==
    /\ pc[p] = "DeleteRemove"
    /\ data' = EmptyMap
    /\ ret' = [ret EXCEPT ![p] = [val |-> NoEntity, err |-> NoError]]
    /\ pc' = [pc EXCEPT ![p] = "DeleteUnlock"]
    /\ Touch(id[p])
    /\ UNCHANGED <<writer, readers, entity, id, before, objName, healthVars, extVars>>

DeleteRemove(p) ==
    /\ pc[p] = "DeleteRemove"
    /\ data' = Remove(data, id[p])
    /\ ret' = [ret EXCEPT ![p] = [val |-> NoEntity, err |-> NoError]]
    /\ pc' = [pc EXCEPT ![p] = "DeleteUnlock"]
    /\ Touch(id[p])
    /\ UNCHANGED <<writer, readers, entity, id, before, objName, healthVars, extVars>>

DeleteUnlock(p) ==
    /\ pc[p] = "DeleteUnlock"
    /\ Unlock(p)
    /\ Leave(p)
    /\ UNCHANGED <<data, objName, histVars, healthVars, extVars>>

\* ------------------------------------------------------------------- List
ListLock(p) ==
    /\ Enter(p, "ListRead")
    /\ RLock(p)
    /\ UNCHANGED <<data, entity, id, ret, objName, histVars, healthVars, extVars>>

ListRead(p) ==
    /\ pc[p] = "ListRead"
    /\ \E s \in RangeSlices(data) :
          ret' = [ret EXCEPT ![p] = [val |-> s, err |-> NoError]]
    /\ pc' = [pc EXCEPT ![p] = "ListUnlock"]
    /\ UNCHANGED <<data, writer, readers, entity, id, before, objName, histVars, healthVars, extVars>>

ListUnlock(p) ==
    /\ pc[p] = "ListUnlock"
    /\ RUnlock(p)
    /\ Leave(p)
    /\ UNCHANGED <<data, objName, histVars, healthVars, extVars>>

\* ------------------------------------------------------------------ Count
CountLock(p) ==
    /\ Enter(p, "CountRead")
    /\ RLock(p)
    /\ UNCHANGED <<data, entity, id, ret, objName, histVars, healthVars, extVars>>

CountRead(p) ==
    /\ pc[p] = "CountRead"
    /\ ret' = [ret EXCEPT ![p] = [val |-> Len_(data), err |-> NoError]]
    /\ pc' = [pc EXCEPT ![p] = "CountUnlock"]
    /\ UNCHANGED <<data, writer, readers, entity, id, before, objName, histVars, healthVars, extVars>>

CountUnlock(p) ==
    /\ pc[p] = "CountUnlock"
    /\ RUnlock(p)
    /\ Leave(p)
    /\ UNCHANGED <<data, objName, histVars, healthVars, extVars>>

\* A caller writes the Name field of an object it created or got back.
CallerMutate(e, n) ==
    /\ e.ref = 1
    /\ objName[e] # n
    /\ objName' = [objName EXCEPT ![e] = n]
    /\ UNCHANGED <<storeVars, histVars, healthVars, extVars>>

\* ==================================================================
\* The health manager
\* ==================================================================
StatusHealthy == "healthy"
StatusUnhealthy == "unhealthy"
StatusOther == "degraded"

CheckerNames == {"db", "api"}
\* A checker is an object with a Name() and a Check(ctx); the registry may
\* hold several checkers of the same name. NilChecker is the nil interface.
Checkers == [name : CheckerNames]
NilChecker == [name |-> ""]
Name(c) == c.name

\* What a Check call can do: return a result with any status string (its own
\* Latency field is overwritten by CheckAll) after some time has elapsed.
CheckOutcomes ==
    { [result |-> [Status |-> StatusHealthy, Message |-> "OK", Latency |-> 0,
                   Error |-> ""],
       elapsed |-> 1],
      [result |-> [Status |-> StatusUnhealthy, Message |-> "Connection failed",
                   Latency |-> 0, Error |-> "timeout"],
       elapsed |-> 2],
      [result |-> [Status |-> StatusOther, Message |-> "", Latency |-> 7,
                   Error |-> ""],
       elapsed |-> 0] }

\* The context a goroutine passes to CheckAll / IsHealthy.
CtxOf(p) == p

EmptyResults == [x \in {} |-> 0]
NoHealthReturn == [map |-> EmptyResults, healthy |-> TRUE]

HealthInit ==
    /\ checkers = <<>>
    /\ hwriter = NoProc
    /\ hreaders = {}
    /\ hpc = [p \in Procs |-> "idle"]
    /\ hop = [p \in Procs |-> "none"]
    /\ harg = [p \in Procs |-> NilChecker]
    /\ hlocal = [p \in Procs |-> <<>>]
    /\ hi = [p \in Procs |-> 0]
    /\ hresults = [p \in Procs |-> EmptyResults]
    /\ hret = [p \in Procs |-> NoHealthReturn]
    /\ hcalls = [p \in Procs |-> <<>>]
    /\ hregistered = 0
    /\ hreports = [p \in Procs |-> <<>>]
    /\ hstart = [p \in Procs |-> 0]
    /\ hdone = <<>>

HealthLeave(p) ==
    /\ hpc' = [hpc EXCEPT ![p] = "idle"]
    /\ hop' = [hop EXCEPT ![p] = "none"]
    /\ harg' = [harg EXCEPT ![p] = NilChecker]
    /\ hlocal' = [hlocal EXCEPT ![p] = <<>>]
    /\ hi' = [hi EXCEPT ![p] = 0]
    /\ hresults' = [hresults EXCEPT ![p] = EmptyResults]
    /\ hret' = [hret EXCEPT ![p] = NoHealthReturn]
    /\ hcalls' = [hcalls EXCEPT ![p] = <<>>]
    /\ hreports' = [hreports EXCEPT ![p] = <<>>]
    /\ hstart' = [hstart EXCEPT ![p] = 0]

RegistersInFlight == Cardinality({p \in Procs : hop[p] = "Register"})

\* A Register that does not wait for the lock.
RegisterLockNoWait(p, c) ==
    /\ hpc[p] = "idle"
    /\ hregistered + RegistersInFlight < MaxCheckers
    /\ hwriter' = p
    /\ hpc' = [hpc EXCEPT ![p] = "RegisterLoad"]
    /\ hop' = [hop EXCEPT ![p] = "Register"]
    /\ harg' = [harg EXCEPT ![p] = c]
    /\ UNCHANGED <<checkers, hreaders, hlocal, hi, hresults, hret, hcalls, hregistered, hreports, hstart, hdone>>
    /\ UNCHANGED <<storeVars, objName, histVars, extVars>>

\* --------------------------------------------------------------- Register
RegisterLock(p, c) ==
    /\ hpc[p] = "idle"
    /\ hregistered + RegistersInFlight < MaxCheckers
    /\ hwriter = NoProc /\ hreaders = {}
    /\ hwriter' = p
    /\ hpc' = [hpc EXCEPT ![p] = "RegisterLoad"]
    /\ hop' = [hop EXCEPT ![p] = "Register"]
    /\ harg' = [harg EXCEPT ![p] = c]
    /\ UNCHANGED <<checkers, hreaders, hlocal, hi, hresults, hret, hcalls, hregistered, hreports, hstart, hdone>>
    /\ UNCHANGED <<storeVars, objName, histVars, extVars>>

\* append(m.checkers, checker) reads the slice ...
RegisterLoad(p) ==
    /\ hpc[p] = "RegisterLoad"
    /\ hlocal' = [hlocal EXCEPT ![p] = checkers]
    /\ hpc' = [hpc EXCEPT ![p] = "RegisterStore"]
    /\ UNCHANGED <<checkers, hwriter, hreaders, hop, harg, hi, hresults, hret, hcalls,
                   hregistered, hreports, hstart, hdone>>
    /\ UNCHANGED <<storeVars, objName, histVars, extVars>>

\* ... and m.checkers = assigns the extended slice.
RegisterStore(p) ==
    /\ hpc[p] = "RegisterStore"
    /\ checkers' = Append(hlocal[p], harg[p])
    /\ hpc' = [hpc EXCEPT ![p] = "RegisterUnlock"]
    /\ UNCHANGED <<hwriter, hreaders, hop, harg, hlocal, hi, hresults, hret, hcalls,
                   hregistered, hreports, hstart, hdone>>
    /\ UNCHANGED <<storeVars, objName, histVars, extVars>>

RegisterUnlock(p) ==
    /\ hpc[p] = "RegisterUnlock"
    /\ hwriter' = (IF hwriter = p THEN NoProc ELSE hwriter)
    /\ hregistered' = hregistered + 1
    /\ hdone' = Append(hdone, harg[p])
    /\ HealthLeave(p)
    /\ UNCHANGED <<checkers, hreaders>>
    /\ UNCHANGED <<storeVars, objName, histVars, extVars>>

\* --------------------------------------------------------------- CheckAll
\* IsHealthy starts by calling CheckAll: op tells which of the two was called.
CheckAllRLock(p, op) ==
    /\ hpc[p] = "idle"
    /\ hwriter = NoProc
    /\ hreaders' = hreaders \cup {p}
    /\ hpc' = [hpc EXCEPT ![p] = "CheckAllCopy"]
    /\ hop' = [hop EXCEPT ![p] = op]
    /\ hstart' = [hstart EXCEPT ![p] = Len(hdone)]
    /\ UNCHANGED <<checkers, hwriter, harg, hlocal, hi, hresults, hret, hcalls,
                   hregistered, hreports, hdone>>
    /\ UNCHANGED <<storeVars, objName, histVars, extVars>>

\* The copy that takes the probes out of the registry.
CheckAllCopyDrain(p) ==
    /\ hpc[p] = "CheckAllCopy"
    /\ hlocal' = [hlocal EXCEPT ![p] = checkers]
    /\ checkers' = <<>>
    /\ hpc' = [hpc EXCEPT ![p] = "CheckAllRUnlock"]
    /\ UNCHANGED <<hwriter, hreaders, hop, harg, hi, hresults, hret, hcalls,
                   hregistered, hreports, hstart, hdone>>
    /\ UNCHANGED <<storeVars, objName, histVars, extVars>>

\* checkers := make([]Checker, len(m.checkers)); copy(checkers, m.checkers)
CheckAllCopy(p) ==
    /\ hpc[p] = "CheckAllCopy"
    /\ hlocal' = [hlocal EXCEPT ![p] = checkers]
    /\ hpc' = [hpc EXCEPT ![p] = "CheckAllRUnlock"]
    /\ UNCHANGED <<checkers, hwriter, hreaders, hop, harg, hi, hresults, hret, hcalls,
                   hregistered, hreports, hstart, hdone>>
    /\ UNCHANGED <<storeVars, objName, histVars, extVars>>

\* The CheckAll that keeps the read lock while its loop runs.
CheckAllRUnlockDeferred(p) ==
    /\ hpc[p] = "CheckAllRUnlock"
    /\ hresults' = [hresults EXCEPT ![p] = EmptyResults]
    /\ hi' = [hi EXCEPT ![p] = 1]
    /\ hpc' = [hpc EXCEPT ![p] = "CheckAllLoop"]
    /\ UNCHANGED <<checkers, hwriter, hreaders, hop, harg, hlocal, hret, hcalls, hregistered,
                   hreports, hstart, hdone>>
    /\ UNCHANGED <<storeVars, objName, histVars, extVars>>

\* m.mu.RUnlock(), then results := make(map[string]CheckResult)
CheckAllRUnlock(p) ==
    /\ hpc[p] = "CheckAllRUnlock"
    /\ hreaders' = hreaders \ {p}
    /\ hresults' = [hresults EXCEPT ![p] = EmptyResults]
    /\ hi' = [hi EXCEPT ![p] = 1]
    /\ hpc' = [hpc EXCEPT ![p] = "CheckAllLoop"]
    /\ UNCHANGED <<checkers, hwriter, hop, harg, hlocal, hret, hcalls, hregistered, hreports, hstart, hdone>>
    /\ UNCHANGED <<storeVars, objName, histVars, extVars>>

\* The loop head that calls the checker with the background context.
CheckAllLoopBackground(p) ==
    /\ hpc[p] = "CheckAllLoop"
    /\ IF hi[p] > Len(hlocal[p])
          THEN /\ IF hop[p] = "IsHealthy"
                     THEN /\ hpc' = [hpc EXCEPT ![p] = "IsHealthyLoop"]
                          /\ UNCHANGED hret
                     ELSE /\ hpc' = [hpc EXCEPT ![p] = "Return"]
                          /\ hret' = [hret EXCEPT ![p].map = hresults[p]]
               /\ UNCHANGED hcalls
          ELSE IF hlocal[p][hi[p]] = NilChecker
          THEN /\ hpc' = [hpc EXCEPT ![p] = "panicked"]
               /\ UNCHANGED <<hret, hcalls>>
          ELSE /\ hpc' = [hpc EXCEPT ![p] = "InCheck"]
               /\ hcalls' = [hcalls EXCEPT ![p] = Append(@, <<hi[p], 0>>)]
               /\ UNCHANGED hret
    /\ UNCHANGED <<checkers, hwriter, hreaders, hop, harg, hlocal, hi, hresults,
                   hregistered, hreports, hstart, hdone>>
    /\ UNCHANGED <<storeVars, objName, histVars, extVars>>

\* The loop head that steps over a nil checker.
CheckAllLoopSkipNil(p) ==
    /\ hpc[p] = "CheckAllLoop"
    /\ IF hi[p] > Len(hlocal[p])
          THEN /\ IF hop[p] = "IsHealthy"
                     THEN /\ hpc' = [hpc EXCEPT ![p] = "IsHealthyLoop"]
                          /\ UNCHANGED hret
                     ELSE /\ hpc' = [hpc EXCEPT ![p] = "Return"]
                          /\ hret' = [hret EXCEPT ![p].map = hresults[p]]
               /\ UNCHANGED <<hcalls, hi>>
          ELSE IF hlocal[p][hi[p]] = NilChecker
          THEN /\ hi' = [hi EXCEPT ![p] = @ + 1]
               /\ UNCHANGED <<hpc, hret, hcalls>>
          ELSE /\ hpc' = [hpc EXCEPT ![p] = "InCheck"]
               /\ hcalls' = [hcalls EXCEPT ![p] = Append(@, <<hi[p], CtxOf(p)>>)]
               /\ UNCHANGED <<hret, hi>>
    /\ UNCHANGED <<checkers, hwriter, hreaders, hop, harg, hlocal, hresults,
                   hregistered, hreports, hstart, hdone>>
    /\ UNCHANGED <<storeVars, objName, histVars, extVars>>

\* The head of the range loop: the loop ends, or the next checker is called.
\* A method call on a nil interface value panics.
CheckAllLoop(p) ==
    /\ hpc[p] = "CheckAllLoop"
    /\ IF hi[p] > Len(hlocal[p])
          THEN /\ IF hop[p] = "IsHealthy"
                     THEN /\ hpc' = [hpc EXCEPT ![p] = "IsHealthyLoop"]
                          /\ UNCHANGED hret
                     ELSE /\ hpc' = [hpc EXCEPT ![p] = "Return"]
                          /\ hret' = [hret EXCEPT ![p].map = hresults[p]]
               /\ UNCHANGED hcalls
          ELSE IF hlocal[p][hi[p]] = NilChecker
          THEN /\ hpc' = [hpc EXCEPT ![p] = "panicked"]
               /\ UNCHANGED <<hret, hcalls>>
          ELSE /\ hpc' = [hpc EXCEPT ![p] = "InCheck"]
               /\ hcalls' = [hcalls EXCEPT ![p] = Append(@, <<hi[p], CtxOf(p)>>)]
               /\ UNCHANGED hret
    /\ UNCHANGED <<checkers, hwriter, hreaders, hop, harg, hlocal, hi, hresults,
                   hregistered, hreports, hstart, hdone>>
    /\ UNCHANGED <<storeVars, objName, histVars, extVars>>

\* A Check return that leaves the loop at an unhealthy result.
CheckReturnsBreak(p, o) ==
    /\ hpc[p] = "InCheck"
    /\ hresults' = [hresults EXCEPT ![p] =
                       Put(@, Name(hlocal[p][hi[p]]),
                           [o.result EXCEPT !.Latency = o.elapsed])]
    /\ hi' = [hi EXCEPT ![p] = IF o.result.Status = StatusUnhealthy
                                  THEN Len(hlocal[p]) + 1 ELSE @ + 1]
    /\ hreports' = [hreports EXCEPT ![p] = Append(@, o)]
    /\ hpc' = [hpc EXCEPT ![p] = "CheckAllLoop"]
    /\ UNCHANGED <<checkers, hwriter, hreaders, hop, harg, hlocal, hret, hcalls,
                   hregistered, hstart, hdone>>
    /\ UNCHANGED <<storeVars, objName, histVars, extVars>>

\* A Check return that keeps the result already stored under the name.
CheckReturnsKeepFirst(p, o) ==
    /\ hpc[p] = "InCheck"
    /\ hresults' = [hresults EXCEPT ![p] =
                       IF Has(@, Name(hlocal[p][hi[p]])) THEN @
                       ELSE Put(@, Name(hlocal[p][hi[p]]),
                                [o.result EXCEPT !.Latency = o.elapsed])]
    /\ hi' = [hi EXCEPT ![p] = @ + 1]
    /\ hreports' = [hreports EXCEPT ![p] = Append(@, o)]
    /\ hpc' = [hpc EXCEPT ![p] = "CheckAllLoop"]
    /\ UNCHANGED <<checkers, hwriter, hreaders, hop, harg, hlocal, hret, hcalls,
                   hregistered, hstart, hdone>>
    /\ UNCHANGED <<storeVars, objName, histVars, extVars>>

\* checker.Check(ctx) returns: the result is stored under the checker's name
\* with the measured latency.
CheckReturns(p, o) ==
    /\ hpc[p] = "InCheck"
    /\ hresults' = [hresults EXCEPT ![p] =
                       Put(@, Name(hlocal[p][hi[p]]),
                           [o.result EXCEPT !.Latency = o.elapsed])]
    /\ hi' = [hi EXCEPT ![p] = @ + 1]
    /\ hreports' = [hreports EXCEPT ![p] = Append(@, o)]
    /\ hpc' = [hpc EXCEPT ![p] = "CheckAllLoop"]
    /\ UNCHANGED <<checkers, hwriter, hreaders, hop, harg, hlocal, hret, hcalls,
                   hregistered, hstart, hdone>>
    /\ UNCHANGED <<storeVars, objName, histVars, extVars>>

\* -------------------------------------------------------------- IsHealthy
\* The range taking every status other than healthy for unhealthy.
RECURSIVE RangeHealthyStrict(_, _)
RangeHealthyStrict(results, keys) ==
    IF keys = <<>> THEN TRUE
    ELSE IF results[Head(keys)].Status # StatusHealthy THEN FALSE
    ELSE RangeHealthyStrict(results, Tail(keys))

\* The range that looks at the first result it visits only.
RangeHealthyFirst(results, keys) ==
    IF keys = <<>> THEN TRUE
    ELSE results[Head(keys)].Status # StatusUnhealthy

\* The range over the results in the order keys: false at the first unhealthy
\* result, true when the range ends.
RECURSIVE RangeHealthy(_, _)
RangeHealthy(results, keys) ==
    IF keys = <<>> THEN TRUE
    ELSE IF results[Head(keys)].Status = StatusUnhealthy THEN FALSE
    ELSE RangeHealthy(results, Tail(keys))

\* The orders in which a range can visit the keys of a map.
KeyOrders(m) ==
    {f \in [1..Len_(m) -> DOMAIN m] : \A i, j \in 1..Len_(m) : i # j => f[i] # f[j]}

IsHealthyLoop(p) ==
    /\ hpc[p] = "IsHealthyLoop"
    /\ \E keys \in KeyOrders(hresults[p]) :
          hret' = [hret EXCEPT ![p] = [map |-> hresults[p],
                                       healthy |-> RangeHealthy(hresults[p], keys)]]
    /\ hpc' = [hpc EXCEPT ![p] = "Return"]
    /\ UNCHANGED <<checkers, hwriter, hreaders, hop, harg, hlocal, hi, hresults, hcalls,
                   hregistered, hreports, hstart, hdone>>
    /\ UNCHANGED <<storeVars, objName, histVars, extVars>>

HealthReturn(p) ==
    /\ hpc[p] = "Return"
    /\ HealthLeave(p)
    /\ UNCHANGED <<checkers, hwriter, hreaders, hregistered, hdone>>
    /\ UNCHANGED <<storeVars, objName, histVars, extVars>>

\* The panic of a round unwinds to the caller's recover (assert.Panics in the
\* tests, the Recovery middleware in the server).
Recover(p) ==
    /\ hpc[p] = "panicked"
    /\ HealthLeave(p)
    /\ UNCHANGED <<checkers, hwriter, hreaders, hregistered, hdone>>
    /\ UNCHANGED <<storeVars, objName, histVars, extVars>>

\* ==================================================================
\* The readiness handler
\* ==================================================================
StatusPass == "pass"
StatusFail == "fail"
StatusWarn == "warn"

\* The results a CheckAll mapping can hold for the handler: any status string,
\* with or without a message and an error string.
ReadinessResults ==
    [Status : {StatusHealthy, StatusUnhealthy, StatusOther},
     Message : {"", "OK"}, Latency : {0}, Error : {"", "timeout"}]

\* The mappings CheckAll can return: one result under each of some names.
ResultMaps ==
    UNION {[S -> ReadinessResults] : S \in SUBSET CheckerNames}

ReadyInit ==
    /\ rpc = "idle"
    /\ rmap = EmptyResults
    /\ rkeys = <<>>
    /\ roverall = StatusPass
    /\ rchecks = EmptyResults
    /\ rnotes = <<>>
    /\ rcode = 0

\* healthResults := h.healthManager.CheckAll(ctx), the three locals, and the
\* order in which the range is going to visit the map.
ReadinessCheckAll(m, keys) ==
    /\ rpc = "idle"
    /\ keys \in KeyOrders(m)
    /\ rmap' = m
    /\ rkeys' = keys
    /\ roverall' = StatusPass
    /\ rchecks' = EmptyResults
    /\ rnotes' = <<>>
    /\ rcode' = 0
    /\ rpc' = "Range"
    /\ UNCHANGED outsideReady

\* The switch on result.Status: the check's own status.
DetailStatus(result) ==
    IF result.Status = StatusHealthy THEN StatusPass
    ELSE IF result.Status = StatusUnhealthy THEN StatusFail
    ELSE StatusWarn

\* The switch whose default case sets warn whatever overallStatus holds.
OverallAfterUnguarded(overall, result) ==
    IF result.Status = StatusHealthy THEN overall
    ELSE IF result.Status = StatusUnhealthy THEN StatusFail
    ELSE StatusWarn

\* The switch on result.Status: what it leaves in overallStatus.
OverallAfter(overall, result) ==
    IF result.Status = StatusHealthy THEN overall
    ELSE IF result.Status = StatusUnhealthy THEN StatusFail
    ELSE IF overall = StatusPass THEN StatusWarn
    ELSE overall

\* The checkDetail whose Output is always the message.
CheckDetailMessage(name, result) ==
    [ComponentId |-> name, ComponentType |-> "dependency",
     Status |-> DetailStatus(result),
     Output |-> result.Message]

\* checkDetail: Output is the message, replaced by the error when there is one.
CheckDetail(name, result) ==
    [ComponentId |-> name, ComponentType |-> "dependency",
     Status |-> DetailStatus(result),
     Output |-> IF result.Error # "" THEN result.Error ELSE result.Message]

Note(name) == <<"Dependency ", name, " is unavailable">>

\* One iteration of the range over healthResults.
ReadinessRange ==
    /\ rpc = "Range"
    /\ rkeys # <<>>
    /\ LET name == Head(rkeys)
           result == rmap[name]
       IN /\ roverall' = OverallAfter(roverall, result)
          /\ rchecks' = Put(rchecks, name, <<CheckDetail(name, result)>>)
          /\ rnotes' = IF DetailStatus(result) = StatusFail
                          THEN Append(rnotes, Note(name))
                          ELSE rnotes
    /\ rkeys' = Tail(rkeys)
    /\ UNCHANGED <<rpc, rmap, rcode>>
    /\ UNCHANGED outsideReady

StatusOK == 200
StatusServiceUnavailable == 503

StatusCode(overall) ==
    IF overall = StatusFail THEN StatusServiceUnavailable ELSE StatusOK

\* The range is over: the response is written.
ReadinessRespond ==
    /\ rpc = "Range"
    /\ rkeys = <<>>
    /\ rcode' = StatusCode(roverall)
    /\ rpc' = "Responded"
    /\ UNCHANGED <<rmap, rkeys, roverall, rchecks, rnotes>>
    /\ UNCHANGED outsideReady

ReadinessReturn ==
    /\ rpc = "Responded"
    /\ rpc' = "idle"
    /\ rmap' = EmptyResults
    /\ rkeys' = <<>>
    /\ roverall' = StatusPass
    /\ rchecks' = EmptyResults
    /\ rnotes' = <<>>
    /\ rcode' = 0
    /\ UNCHANGED outsideReady

\* ==================================================================
\* The example domain: its errors and the in-memory example repository
\* ==================================================================
\* An error value: its dynamic type, which value it is (a package-level
\* variable made by errors.New is one value; a struct allocated where it is
\* returned is a new one each time), the ID field when it has one, and the
\* pieces of the text Error() returns.
ErrorsNew(ident, text) ==
    [type |-> "*errors.errorString", ident |-> ident, ID |-> "", msg |-> <<text>>]

NilError == [type |-> "nil", ident |-> "nil", ID |-> "", msg |-> <<>>]

ErrInvalidEntityID == ErrorsNew("example.ErrInvalidEntityID", "entity ID cannot be empty")
ErrInvalidEmail == ErrorsNew("example.ErrInvalidEmail", "invalid email format")
ErrInvalidName == ErrorsNew("example.ErrInvalidName", "name cannot be empty")
ErrEntityNotFound == ErrorsNew("example.ErrEntityNotFound", "entity not found")
ErrReservedName == ErrorsNew("example.ErrReservedName", "name is reserved")

AlreadyExistsError(i) ==
    [type |-> "*example.AlreadyExistsError", ident |-> "new", ID |-> i,
     msg |-> <<"entity with id '", i, "' already exists">>]

\* The errors of the platform repository as error values.
PlatformError(err) ==
    IF err = NoError THEN NilError
    ELSE IF err = ErrNotFound THEN ErrorsNew("memoryPlatform.ErrNotFound", ErrNotFound)
    ELSE ErrorsNew("memoryPlatform.ErrAlreadyExists", ErrAlreadyExists)

\* errors.Is against a package-level error value; errors.As against a type.
\* None of the errors above wraps another one.
ErrorsIs(err, target) == err.ident = target.ident
ErrorsAs(err, type) == err.type = type

\* memory.Repository.GetByID on what the embedded repository returned.
RepositoryGetByID(r) ==
    IF r.err # NoError
       THEN IF ErrorsIs(PlatformError(r.err), PlatformError(ErrNotFound))
               THEN [val |-> NoEntity, err |-> ErrEntityNotFound]
               ELSE [val |-> NoEntity, err |-> PlatformError(r.err)]
       ELSE [val |-> r.val, err |-> NilError]

\* The Save that hands the embedded repository's error to its caller.
RepositorySaveRaw(e, err) == PlatformError(err)

\* memory.Repository.Save on what the embedded repository returned.
RepositorySave(e, err) ==
    IF err # NoError
       THEN IF ErrorsIs(PlatformError(err), PlatformError(ErrAlreadyExists))
               THEN AlreadyExistsError(e.ID)
               ELSE PlatformError(err)
       ELSE NilError

\* ------------------------------------------------- the example use case
Emails == {"", "bad", "a@b.co"}
EntityNames == {"", "admin", "Admin", "bob"}

\* An *example.Entity; NilEntity is the nil pointer.
NilEntity == [ID |-> "", Email |-> "", Name |-> ""]

\* emailRegex.MatchString and strings.ToLower on the strings of the model.
EmailMatches(email) == email = "a@b.co"
ToLower(s) == IF s = "Admin" THEN "admin" ELSE s

NewEntity(i, email, name) ==
    IF i = "" THEN [val |-> NilEntity, err |-> ErrInvalidEntityID]
    ELSE IF name = "" THEN [val |-> NilEntity, err |-> ErrInvalidName]
    ELSE IF ~EmailMatches(email) THEN [val |-> NilEntity, err |-> ErrInvalidEmail]
    ELSE [val |-> [ID |-> i, Email |-> email, Name |-> name], err |-> NilError]

CheckEntityForCreation(e) ==
    IF ToLower(e.Name) = "admin" THEN ErrReservedName ELSE NilError

\* An error of the database driver, which the repositories return as it is.
ErrConnDone == ErrorsNew("sql.ErrConnDone", "sql: connection is already closed")

\* What a repository behind ports.ExampleRepository can return.
SaveOutcomes(e) ==
    {RepositorySave(e, err) : err \in {NoError, ErrAlreadyExists}} \cup {ErrConnDone}

GetByIDOutcomes(i) ==
    { [val |-> [ID |-> i, Email |-> "a@b.co", Name |-> "bob"], err |-> NilError],
      RepositoryGetByID([val |-> NoEntity, err |-> ErrNotFound]),
      [val |-> NoEntity, err |-> ErrConnDone] }

\* ------------------------------------------------ the platform http errors
StatusBadRequest == 400
StatusNotFound == 404
StatusConflict == 409
StatusInternalServerError == 500
StatusCreated == 201

StatusText(code) ==
    IF code = StatusBadRequest THEN "Bad Request"
    ELSE IF code = StatusNotFound THEN "Not Found"
    ELSE IF code = StatusConflict THEN "Conflict"
    ELSE "Internal Server Error"

\* httpErrors.New: an *Error with its status code, message and wrapped error;
\* msg is what its Error() returns.
HTTPError(code, message, err) ==
    [type |-> "*http.Error", ident |-> "new", ID |-> "",
     msg |-> IF message # "" THEN <<message>>
             ELSE IF err.type # "nil" THEN err.msg
             ELSE <<StatusText(code)>>,
     StatusCode |-> code, Message |-> message, Err |-> err]

NewNotFound(message, err) == HTTPError(StatusNotFound, message, err)
NewBadRequest(message, err) == HTTPError(StatusBadRequest, message, err)
NewConflict(message, err) == HTTPError(StatusConflict, message, err)

\* ------------------------------------------------- the example handlers
\* mapDomainError without its default case.
MapDomainErrorNoDefault(err) ==
    IF ErrorsIs(err, ErrEntityNotFound) THEN NewNotFound("Entity not found", err)
    ELSE IF ErrorsIs(err, ErrInvalidEntityID) THEN NewBadRequest("Invalid entity ID", err)
    ELSE IF ErrorsIs(err, ErrInvalidEmail) THEN NewBadRequest("Invalid email format", err)
    ELSE IF ErrorsIs(err, ErrInvalidName) THEN NewBadRequest("Invalid name", err)
    ELSE IF ErrorsIs(err, ErrReservedName) THEN NewBadRequest("Name is reserved", err)
    ELSE err

MapDomainError(err) ==
    IF ErrorsIs(err, ErrEntityNotFound) THEN NewNotFound("Entity not found", err)
    ELSE IF ErrorsIs(err, ErrInvalidEntityID) THEN NewBadRequest("Invalid entity ID", err)
    ELSE IF ErrorsIs(err, ErrInvalidEmail) THEN NewBadRequest("Invalid email format", err)
    ELSE IF ErrorsIs(err, ErrInvalidName) THEN NewBadRequest("Invalid name", err)
    ELSE IF ErrorsIs(err, ErrReservedName) THEN NewBadRequest("Name is reserved", err)
    ELSE IF ErrorsAs(err, "*example.AlreadyExistsError")
         THEN NewConflict("Entity already exists", err)
    ELSE err

\* A response: the status written and the JSON body, as the key and the value
\* of its one member.
NoResponse == [status |-> 0, body |-> <<>>]
RespondJSON(status, key, payload) == [status |-> status, body |-> <<key, payload>>]
RespondError(status, err) == RespondJSON(status, "error", err.msg)

NoArgs == [id |-> "", email |-> "", name |-> ""]
NoUsecaseReturn == [val |-> NilEntity, err |-> NilError]

ExampleInit ==
    /\ epc = "idle"
    /\ eop = "none"
    /\ eargs = NoArgs
    /\ eentity = NilEntity
    /\ ecalls = <<>>
    /\ euret = NoUsecaseReturn
    /\ eherr = NilError
    /\ eresp = NoResponse

\* Handler.GetEntity calls the use case, which calls the repository.
HandlerGetEntity(i) ==
    /\ epc = "idle"
    /\ eop' = "GetEntity"
    /\ eargs' = [NoArgs EXCEPT !.id = i]
    /\ epc' = "GetByID"
    /\ UNCHANGED <<eentity, ecalls, euret, eherr, eresp>>
    /\ UNCHANGED outsideExample

\* Usecase.GetEntity: uc.repo.GetByID returns, and the use case returns.
UsecaseGetEntity(r) ==
    /\ epc = "GetByID"
    /\ r \in GetByIDOutcomes(eargs.id)
    /\ ecalls' = Append(ecalls, <<"GetByID", r.err>>)
    /\ euret' = IF r.err.type # "nil" THEN [val |-> NilEntity, err |-> r.err]
                ELSE [val |-> r.val, err |-> NilError]
    /\ epc' = "HandlerReturn"
    /\ UNCHANGED <<eop, eargs, eentity, eherr, eresp>>
    /\ UNCHANGED outsideExample

\* Handler.CreateEntity decodes and validates the request: it answers 400
\* itself when that fails, and calls the use case otherwise.
HandlerCreateEntity(i, email, name, valid) ==
    /\ epc = "idle"
    /\ eop' = "CreateEntity"
    /\ eargs' = [id |-> i, email |-> email, name |-> name]
    /\ IF valid = "decode"
          THEN /\ eresp' = RespondError(StatusBadRequest,
                                        ErrorsNew("new", "invalid request payload"))
               /\ epc' = "ErrorHandler"
          ELSE IF valid = "validation"
          THEN /\ eresp' = RespondJSON(StatusBadRequest, "Errors", <<>>)
               /\ epc' = "ErrorHandler"
          ELSE IF valid = "invalid"
          THEN /\ eresp' = RespondError(StatusBadRequest,
                                        ErrorsNew("new", "invalid request data"))
               /\ epc' = "ErrorHandler"
          ELSE /\ epc' = "NewEntity"
               /\ UNCHANGED eresp
    /\ UNCHANGED <<eentity, ecalls, euret, eherr>>
    /\ UNCHANGED outsideExample

\* Usecase.CreateEntity: example.NewEntity.
UsecaseNewEntity ==
    /\ epc = "NewEntity"
    /\ LET r == NewEntity(eargs.id, eargs.email, eargs.name)
       IN /\ ecalls' = Append(ecalls, <<"NewEntity", r.err>>)
          /\ IF r.err.type # "nil"
                THEN /\ euret' = [val |-> NilEntity, err |-> r.err]
                     /\ epc' = "HandlerReturn"
                     /\ UNCHANGED eentity
                ELSE /\ eentity' = r.val
                     /\ epc' = "Checker"
                     /\ UNCHANGED euret
    /\ UNCHANGED <<eop, eargs, eherr, eresp>>
    /\ UNCHANGED outsideExample

\* The creation check that goes on to Save whatever the checker returned.
UsecaseCheckerIgnored ==
    /\ epc = "Checker"
    /\ ecalls' = Append(ecalls, <<"CheckEntityForCreation",
                                  CheckEntityForCreation(eentity)>>)
    /\ epc' = "Save"
    /\ UNCHANGED <<eop, eargs, eentity, euret, eherr, eresp>>
    /\ UNCHANGED outsideExample

\* Usecase.CreateEntity: uc.checker.CheckEntityForCreation.
UsecaseChecker ==
    /\ epc = "Checker"
    /\ LET err == CheckEntityForCreation(eentity)
       IN /\ ecalls' = Append(ecalls, <<"CheckEntityForCreation", err>>)
          /\ IF err.type # "nil"
                THEN /\ euret' = [val |-> NilEntity, err |-> err]
                     /\ epc' = "HandlerReturn"
                ELSE /\ epc' = "Save"
                     /\ UNCHANGED euret
    /\ UNCHANGED <<eop, eargs, eentity, eherr, eresp>>
    /\ UNCHANGED outsideExample

\* Usecase.CreateEntity: uc.repo.Save returns, and the use case returns.
UsecaseSave(err) ==
    /\ epc = "Save"
    /\ err \in SaveOutcomes(eentity)
    /\ ecalls' = Append(ecalls, <<"Save", err>>)
    /\ euret' = IF err.type # "nil" THEN [val |-> NilEntity, err |-> err]
                ELSE [val |-> eentity, err |-> NilError]
    /\ epc' = "HandlerReturn"
    /\ UNCHANGED <<eop, eargs, eentity, eherr, eresp>>
    /\ UNCHANGED outsideExample

\* The handler has the use case's return: it maps the error and returns it,
\* or writes the entity and returns nil.
HandlerReturn ==
    /\ epc = "HandlerReturn"
    /\ IF euret.err.type # "nil"
          THEN /\ eherr' = MapDomainError(euret.err)
               /\ UNCHANGED eresp
          ELSE /\ eherr' = NilError
               /\ eresp' = RespondJSON(IF eop = "CreateEntity" THEN StatusCreated
                                       ELSE StatusOK, "entity", euret.val)
    /\ epc' = "ErrorHandler"
    /\ UNCHANGED <<eop, eargs, eentity, ecalls, euret>>
    /\ UNCHANGED outsideExample

\* ErrorHandler has the handler's return.
ErrorHandler ==
    /\ epc = "ErrorHandler"
    /\ IF eherr.type = "nil" THEN UNCHANGED eresp
       ELSE IF ErrorsAs(eherr, "*http.Error")
       THEN eresp' = RespondError(eherr.StatusCode, eherr)
       ELSE eresp' = RespondError(StatusInternalServerError,
                                  ErrorsNew("new", "internal server error"))
    /\ epc' = "Responded"
    /\ UNCHANGED <<eop, eargs, eentity, ecalls, euret, eherr>>
    /\ UNCHANGED outsideExample

ExampleDone ==
    /\ epc = "Responded"
    /\ epc' = "idle"
    /\ eop' = "none"
    /\ eargs' = NoArgs
    /\ eentity' = NilEntity
    /\ ecalls' = <<>>
    /\ euret' = NoUsecaseReturn
    /\ eherr' = NilError
    /\ eresp' = NoResponse
    /\ UNCHANGED outsideExample

\* ==================================================================
\* The database Lifecycle
\* ==================================================================
\* A connection is the number postgres.New gave it; NoConn is the nil *DB.
Conns == 1..MaxConns
NoConn == 0

ErrOpen == "failed to open database"
ErrPing == "ping failed"
ErrClose == "close failed"
ErrCtx == "context deadline exceeded"

NoLifeReturn == [err |-> NoError, db |-> NoConn]
NoCheckResult == [Status |-> "", Message |-> "", Error |-> ""]

LifeInit ==
    /\ ldb = NoConn
    /\ lmu = NoProc
    /\ lpc = [p \in Procs |-> "idle"]
    /\ lnew = [p \in Procs |-> NoConn]
    /\ lctx = [p \in Procs |-> "live"]
    /\ lheld = [p \in Procs |-> NoConn]
    /\ lret = [p \in Procs |-> NoLifeReturn]
    /\ lcloser = [p \in Procs |-> "none"]
    /\ lcerr = [p \in Procs |-> NoError]
    /\ lnext = 0
    /\ lcloses = [c \in Conns |-> 0]
    /\ llast = "none"
    /\ lstart = "never"
    /\ ltried = NoConn
    /\ lgoal = [p \in Procs |-> NoConn]
    /\ lhit = [p \in Procs |-> NoConn]
    /\ lchk = [p \in Procs |-> FALSE]
    /\ lconn = [p \in Procs |-> NoConn]
    /\ lres = [p \in Procs |-> NoCheckResult]
    /\ lsaw = [p \in Procs |-> FALSE]

\* A goroutine that panics without a recover ends the process.
Alive == \A p \in Procs : lcloser[p] # "panicked"

\* What a Close of connection c can return: sql.DB.Close returns nil on a
\* pool that is already closed.
CloseOutcomes(c) == IF lcloses[c] > 0 THEN {NoError} ELSE {NoError, ErrClose}

LifeLeave(p) ==
    /\ lmu' = NoProc
    /\ lpc' = [lpc EXCEPT ![p] = "idle"]
    /\ lnew' = [lnew EXCEPT ![p] = NoConn]
    /\ lctx' = [lctx EXCEPT ![p] = "live"]
    /\ lheld' = [lheld EXCEPT ![p] = NoConn]
    /\ lret' = [lret EXCEPT ![p] = NoLifeReturn]

\* ------------------------------------------------------------------ Start
StartLock(p) ==
    /\ Alive
    /\ lpc[p] = "idle"
    /\ lnext < MaxConns
    /\ lmu = NoProc
    /\ lmu' = p
    /\ lpc' = [lpc EXCEPT ![p] = "StartCloseOld"]
    /\ lstart' = "running"
    /\ ltried' = NoConn
    /\ UNCHANGED <<ldb, lnew, lctx, lheld, lret, lcloser, lcerr, lnext, lcloses, llast,
                   lgoal, lhit, checkVars>>
    /\ UNCHANGED outsideLife

\* The Start that drops the existing connection without closing it.
StartCloseOldDrop(p, err) ==
    /\ Alive
    /\ lpc[p] = "StartCloseOld"
    /\ err = NoError
    /\ ldb' = NoConn
    /\ lpc' = [lpc EXCEPT ![p] = "StartNew"]
    /\ UNCHANGED <<lmu, lnew, lctx, lheld, lret, lcloser, lcerr, lnext, lcloses, llast,
                   lifeHist, checkVars>>
    /\ UNCHANGED outsideLife

\* A connection postgres.New has opened and nobody has called Close on.
Open(c) == c <= lnext /\ lcloses[c] = 0

\* if d.db != nil: the existing connection is closed (an error is logged
\* only) and the field is set to nil.
StartCloseOld(p, err) ==
    /\ Alive
    /\ lpc[p] = "StartCloseOld"
    /\ IF ldb # NoConn
          THEN /\ err \in CloseOutcomes(ldb)
               /\ lcloses' = [lcloses EXCEPT ![ldb] = @ + 1]
               /\ ldb' = NoConn
          ELSE /\ err = NoError
               /\ UNCHANGED <<lcloses, ldb>>
    /\ lpc' = [lpc EXCEPT ![p] = "StartNew"]
    /\ UNCHANGED <<lmu, lnew, lctx, lheld, lret, lcloser, lcerr, lnext, llast, lifeHist, checkVars>>
    /\ UNCHANGED outsideLife

\* postgres.New opens a connection pool, or fails.
StartNew(p, ok) ==
    /\ Alive
    /\ lpc[p] = "StartNew"
    /\ IF ok
          THEN /\ lnext' = lnext + 1
               /\ lnew' = [lnew EXCEPT ![p] = lnext + 1]
               /\ ltried' = lnext + 1
               /\ lpc' = [lpc EXCEPT ![p] = "StartPing"]
               /\ UNCHANGED lret
          ELSE /\ lret' = [lret EXCEPT ![p] = [err |-> ErrOpen, db |-> NoConn]]
               /\ lpc' = [lpc EXCEPT ![p] = "StartUnlock"]
               /\ UNCHANGED <<lnext, lnew, ltried>>
    /\ UNCHANGED <<ldb, lmu, lctx, lheld, lcloser, lcerr, lcloses, llast,
                   lstart, lgoal, lhit, checkVars>>
    /\ UNCHANGED outsideLife

\* The ping whose failure returns the error and leaves the new pool open.
StartPingLeak(p, ok) ==
    /\ Alive
    /\ lpc[p] = "StartPing"
    /\ IF ok
          THEN /\ ldb' = lnew[p]
               /\ llast' = "none"
               /\ lret' = [lret EXCEPT ![p] = [err |-> NoError, db |-> NoConn]]
          ELSE /\ lret' = [lret EXCEPT ![p] = [err |-> ErrPing, db |-> NoConn]]
               /\ UNCHANGED <<ldb, llast>>
    /\ lpc' = [lpc EXCEPT ![p] = "StartUnlock"]
    /\ UNCHANGED <<lmu, lnew, lctx, lheld, lcloser, lcerr, lnext, lcloses, lifeHist, checkVars>>
    /\ UNCHANGED outsideLife

\* db.Ping(ctx): on success the connection is installed, on failure it is
\* closed and the ping's error returned.
StartPing(p, ok) ==
    /\ Alive
    /\ lpc[p] = "StartPing"
    /\ IF ok
          THEN /\ ldb' = lnew[p]
               /\ llast' = "none"
               /\ lret' = [lret EXCEPT ![p] = [err |-> NoError, db |-> NoConn]]
               /\ UNCHANGED lcloses
          ELSE /\ lcloses' = [lcloses EXCEPT ![lnew[p]] = @ + 1]
               /\ lret' = [lret EXCEPT ![p] = [err |-> ErrPing, db |-> NoConn]]
               /\ UNCHANGED <<ldb, llast>>
    /\ lpc' = [lpc EXCEPT ![p] = "StartUnlock"]
    /\ UNCHANGED <<lmu, lnew, lctx, lheld, lcloser, lcerr, lnext, lifeHist, checkVars>>
    /\ UNCHANGED outsideLife

StartUnlock(p) ==
    /\ Alive
    /\ lpc[p] = "StartUnlock"
    /\ lstart' = lret[p].err
    /\ LifeLeave(p)
    /\ UNCHANGED <<ldb, lcloser, lcerr, lnext, lcloses, llast, ltried, lgoal, lhit, checkVars>>
    /\ UNCHANGED outsideLife

\* ------------------------------------------------------------------- Stop
\* Stop is called with a context that is live or already done. A goroutine
\* calls Stop again only when the goroutine its last Stop spawned has ended.
StopLock(p, ctx) ==
    /\ Alive
    /\ lpc[p] = "idle"
    /\ lcloser[p] = "none"
    /\ lmu = NoProc
    /\ lmu' = p
    /\ lctx' = [lctx EXCEPT ![p] = ctx]
    /\ lheld' = [lheld EXCEPT ![p] = ldb]
    /\ lpc' = [lpc EXCEPT ![p] = "StopCheck"]
    /\ UNCHANGED <<ldb, lnew, lret, lcloser, lcerr, lnext, lcloses, llast, lifeHist, checkVars>>
    /\ UNCHANGED outsideLife

\* if d.db == nil return nil; otherwise the closing goroutine is spawned.
StopCheck(p) ==
    /\ Alive
    /\ lpc[p] = "StopCheck"
    /\ IF ldb = NoConn
          THEN /\ lret' = [lret EXCEPT ![p] = [err |-> NoError, db |-> NoConn]]
               /\ lpc' = [lpc EXCEPT ![p] = "StopUnlock"]
               /\ UNCHANGED <<lcloser, lgoal>>
          ELSE /\ lcloser' = [lcloser EXCEPT ![p] = "spawned"]
               /\ lgoal' = [lgoal EXCEPT ![p] = ldb]
               /\ lpc' = [lpc EXCEPT ![p] = "StopSelect"]
               /\ UNCHANGED lret
    /\ UNCHANGED <<ldb, lmu, lnew, lctx, lheld, lcerr, lnext, lcloses, llast,
                   lstart, ltried, lhit, checkVars>>
    /\ UNCHANGED outsideLife

\* The context of a Stop that waits in its select expires.
CtxDone(p) ==
    /\ Alive
    /\ lpc[p] = "StopSelect"
    /\ lctx[p] = "live"
    /\ lctx' = [lctx EXCEPT ![p] = "done"]
    /\ UNCHANGED <<ldb, lmu, lpc, lnew, lheld, lret, lcloser, lcerr, lnext, lcloses, llast, lifeHist, checkVars>>
    /\ UNCHANGED outsideLife

\* The spawned goroutine runs done <- d.db.Close(): it reads the field d.db
\* without the mutex, at whatever moment it is scheduled; Close on a nil *DB
\* dereferences nil and panics. The channel has room for the one value.
CloserRun(p, err) ==
    /\ Alive
    /\ lcloser[p] = "spawned"
    /\ IF ldb = NoConn
          THEN /\ err = NoError
               /\ lcloser' = [lcloser EXCEPT ![p] = "panicked"]
               /\ UNCHANGED <<lcloses, lcerr, lhit>>
          ELSE /\ err \in CloseOutcomes(ldb)
               /\ lcloses' = [lcloses EXCEPT ![ldb] = @ + 1]
               /\ lhit' = [lhit EXCEPT ![p] = ldb]
               /\ lcerr' = [lcerr EXCEPT ![p] = err]
               /\ lcloser' = [lcloser EXCEPT ![p] = "sent"]
    /\ UNCHANGED <<ldb, lmu, lpc, lnew, lctx, lheld, lret, lnext, llast,
                   lstart, ltried, lgoal, checkVars>>
    /\ UNCHANGED outsideLife

\* The goroutine of a Stop that has left its select ends after its send.
CloserExit(p) ==
    /\ Alive
    /\ lcloser[p] = "sent"
    /\ lpc[p] # "StopSelect"
    /\ lcloser' = [lcloser EXCEPT ![p] = "none"]
    /\ lcerr' = [lcerr EXCEPT ![p] = NoError]
    /\ lgoal' = [lgoal EXCEPT ![p] = NoConn]
    /\ lhit' = [lhit EXCEPT ![p] = NoConn]
    /\ UNCHANGED <<ldb, lmu, lpc, lnew, lctx, lheld, lret, lnext, lcloses, llast,
                   lstart, ltried, checkVars>>
    /\ UNCHANGED outsideLife

\* case err := <-done
StopSelectDone(p) ==
    /\ Alive
    /\ lpc[p] = "StopSelect"
    /\ lcloser[p] = "sent"
    /\ ldb' = NoConn
    /\ lret' = [lret EXCEPT ![p] = [err |-> lcerr[p], db |-> NoConn]]
    /\ lcloser' = [lcloser EXCEPT ![p] = "none"]
    /\ lcerr' = [lcerr EXCEPT ![p] = NoError]
    /\ lpc' = [lpc EXCEPT ![p] = "StopUnlock"]
    /\ lgoal' = [lgoal EXCEPT ![p] = NoConn]
    /\ lhit' = [lhit EXCEPT ![p] = NoConn]
    /\ UNCHANGED <<lmu, lnew, lctx, lheld, lnext, lcloses, llast, lstart, ltried, checkVars>>
    /\ UNCHANGED outsideLife

\* The timeout case that keeps the connection in the field.
StopSelectCtxKeep(p) ==
    /\ Alive
    /\ lpc[p] = "StopSelect"
    /\ lctx[p] = "done"
    /\ lret' = [lret EXCEPT ![p] = [err |-> ErrCtx, db |-> NoConn]]
    /\ lpc' = [lpc EXCEPT ![p] = "StopUnlock"]
    /\ UNCHANGED <<ldb, lmu, lnew, lctx, lheld, lcloser, lcerr, lnext, lcloses, llast, lifeHist, checkVars>>
    /\ UNCHANGED outsideLife

\* case <-ctx.Done()
StopSelectCtx(p) ==
    /\ Alive
    /\ lpc[p] = "StopSelect"
    /\ lctx[p] = "done"
    /\ ldb' = NoConn
    /\ lret' = [lret EXCEPT ![p] = [err |-> ErrCtx, db |-> NoConn]]
    /\ lpc' = [lpc EXCEPT ![p] = "StopUnlock"]
    /\ UNCHANGED <<lmu, lnew, lctx, lheld, lcloser, lcerr, lnext, lcloses, llast, lifeHist, checkVars>>
    /\ UNCHANGED outsideLife

StopUnlock(p) ==
    /\ Alive
    /\ lpc[p] = "StopUnlock"
    /\ llast' = lret[p].err
    /\ LifeLeave(p)
    /\ UNCHANGED <<ldb, lcloser, lcerr, lnext, lcloses, lifeHist, checkVars>>
    /\ UNCHANGED outsideLife

\* ------------------------------------------------------------- Connection
\* The states the Lifecycle is in when it was never started, when its last
\* Start failed, or when it was stopped and not started since.
HoldsNothing ==
    \/ lstart = "never"
    \/ lstart \in {ErrOpen, ErrPing}
    \/ llast # "none"

\* Connection() is called by an application goroutine or, when check is TRUE,
\* as the first statement of DatabaseChecker.Check.
ConnectionLock(p, check) ==
    /\ Alive
    /\ lpc[p] = "idle"
    /\ lmu = NoProc
    /\ lmu' = p
    /\ lret' = [lret EXCEPT ![p] = [err |-> NoError, db |-> ldb]]
    /\ lpc' = [lpc EXCEPT ![p] = "ConnectionUnlock"]
    /\ lchk' = [lchk EXCEPT ![p] = check]
    /\ lsaw' = [lsaw EXCEPT ![p] = check /\ HoldsNothing]
    /\ UNCHANGED <<ldb, lnew, lctx, lheld, lcloser, lcerr, lnext, lcloses, llast, lifeHist,
                   lconn, lres>>
    /\ UNCHANGED outsideLife

ConnectionUnlock(p) ==
    /\ Alive
    /\ lpc[p] = "ConnectionUnlock"
    /\ IF lchk[p]
          THEN /\ lconn' = [lconn EXCEPT ![p] = lret[p].db]
               /\ lmu' = NoProc
               /\ lret' = [lret EXCEPT ![p] = NoLifeReturn]
               /\ lpc' = [lpc EXCEPT ![p] = "Check"]
               /\ UNCHANGED <<lnew, lctx, lheld>>
          ELSE /\ LifeLeave(p)
               /\ UNCHANGED lconn
    /\ UNCHANGED <<ldb, lcloser, lcerr, lnext, lcloses, llast, lifeHist, lchk, lres, lsaw>>
    /\ UNCHANGED outsideLife

\* ------------------------------------------------- DatabaseChecker.Check
\* What db.Ping can return: a closed pool fails every ping, an open one
\* answers or not.
PingOutcomes(c) == IF lcloses[c] > 0 THEN {FALSE} ELSE BOOLEAN

\* The Check that reports a nil connection as a failed ping.
CheckResultOfPingNil(db, ok) ==
    IF db = NoConn \/ ~ok
       THEN [Status |-> StatusUnhealthy,
             Message |-> "database connection failed", Error |-> ErrPing]
    ELSE [Status |-> StatusHealthy,
          Message |-> "database connection healthy", Error |-> ""]

\* The result of Check for the local db and the outcome of its ping.
CheckResultOf(db, ok) ==
    IF db = NoConn
       THEN [Status |-> StatusUnhealthy,
             Message |-> "database connection is not initialized", Error |-> ""]
    ELSE IF ~ok
       THEN [Status |-> StatusUnhealthy,
             Message |-> "database connection failed", Error |-> ErrPing]
    ELSE [Status |-> StatusHealthy,
          Message |-> "database connection healthy", Error |-> ""]

\* if db == nil ...; err := db.Ping(ctx) ...
DatabaseCheck(p, ok) ==
    /\ Alive
    /\ lpc[p] = "Check"
    /\ IF lconn[p] = NoConn THEN ok = FALSE ELSE ok \in PingOutcomes(lconn[p])
    /\ lres' = [lres EXCEPT ![p] = CheckResultOf(lconn[p], ok)]
    /\ lpc' = [lpc EXCEPT ![p] = "CheckReturn"]
    /\ UNCHANGED <<ldb, lmu, lnew, lctx, lheld, lret, lcloser, lcerr, lnext, lcloses, llast,
                   lifeHist, lchk, lconn, lsaw>>
    /\ UNCHANGED outsideLife

\* The application registers two checkers: the memory checker and the
\* database checker, named "postgres".
MemoryCheckerName == "memory_storage"
DatabaseCheckerName == "postgres"

\* The mappings CheckAll returns for that registry when the database checker
\* reports result: CheckAll overwrites the Latency of each result.
WiredMaps(result) ==
    { [n \in {MemoryCheckerName, DatabaseCheckerName} |->
          IF n = MemoryCheckerName THEN r
          ELSE [Status |-> result.Status, Message |-> result.Message,
                Latency |-> 0, Error |-> result.Error]] : r \in ReadinessResults }

\* overallStatus after the readiness handler's range over the mapping, in
\* the order keys.
RECURSIVE ReadinessOverall(_, _, _)
ReadinessOverall(overall, m, keys) ==
    IF keys = <<>> THEN overall
    ELSE ReadinessOverall(OverallAfter(overall, m[Head(keys)]), m, Tail(keys))

DatabaseCheckReturn(p) ==
    /\ Alive
    /\ lpc[p] = "CheckReturn"
    /\ lpc' = [lpc EXCEPT ![p] = "idle"]
    /\ lchk' = [lchk EXCEPT ![p] = FALSE]
    /\ lconn' = [lconn EXCEPT ![p] = NoConn]
    /\ lres' = [lres EXCEPT ![p] = NoCheckResult]
    /\ lsaw' = [lsaw EXCEPT ![p] = FALSE]
    /\ UNCHANGED <<ldb, lmu, lnew, lctx, lheld, lret, lcloser, lcerr, lnext, lcloses, llast,
                   lifeHist>>
    /\ UNCHANGED outsideLife

\* ==================================================================
\* The HTTP Server: Start and Stop around one http.Server
\* ==================================================================
\* One goroutine calls Start and Stop, in any order. NewServer always sets
\* the server field, so the nil check of Stop is never taken. No request is
\* in progress when Shutdown is called, so Shutdown returns nil at once, and
\* Accept fails only because its listener was closed.
Cycles == 1..MaxCycles
ErrListen == "listen failed"

ServerInit ==
    /\ spc = "idle"
    /\ sctx = "live"
    /\ sfree = TRUE
    /\ sret = NoError
    /\ slast = "none"
    /\ sreg = TRUE
    /\ sshut = FALSE
    /\ sln = [c \in Cycles |-> "none"]
    /\ sgo = [c \in Cycles |-> "none"]
    /\ scycle = 0

\* The address is bound by a listener of this Server.
PortBound == \E c \in Cycles : sln[c] = "open"

\* A listener is open and a Serve loop is accepting on it.
Answering == \E c \in Cycles : sln[c] = "open" /\ sgo[c] = "serving"

\* http.Server.Shutdown marks the server as shutting down, for good, and
\* closes the listeners its Serve loops have registered.
ShutdownListeners ==
    [c \in Cycles |-> IF sgo[c] = "serving" /\ sln[c] = "open" THEN "closed" ELSE sln[c]]

\* ------------------------------------------------------------------ Start
\* ln, err := net.Listen("tcp", s.server.Addr): fails when the address is
\* bound, by another process or by a listener of this Server; otherwise the
\* goroutine that runs s.server.Serve(ln) is spawned.
ServerStartListen(free, ctx) ==
    /\ spc = "idle"
    /\ scycle < MaxCycles
    /\ sctx' = ctx
    /\ sfree' = (free /\ ~PortBound)
    /\ sreg' = (sreg /\ slast \in {"none", "Stopped"} /\ ctx = "live" /\ free)
    /\ IF free /\ ~PortBound
          THEN /\ scycle' = scycle + 1
               /\ sln' = [sln EXCEPT ![scycle + 1] = "open"]
               /\ sgo' = [sgo EXCEPT ![scycle + 1] = "spawned"]
               /\ spc' = "StartSelect"
               /\ UNCHANGED sret
          ELSE /\ sret' = ErrListen
               /\ spc' = "StartReturn"
               /\ UNCHANGED <<scycle, sln, sgo>>
    /\ UNCHANGED <<slast, sshut>>
    /\ UNCHANGED outsideServer

\* The select: nothing is sent on errChan for ErrServerClosed, so the cases
\* are <-ctx.Done(), which shuts the server down and returns the result of
\* Shutdown, and default, which returns nil.
ServerStartSelect ==
    /\ spc = "StartSelect"
    /\ IF sctx = "done"
          THEN /\ sshut' = TRUE
               /\ sln' = ShutdownListeners
          ELSE UNCHANGED <<sshut, sln>>
    /\ sret' = NoError
    /\ spc' = "StartReturn"
    /\ UNCHANGED <<sctx, sfree, slast, sreg, sgo, scycle>>
    /\ UNCHANGED outsideServer

ServerStartReturn ==
    /\ spc = "StartReturn"
    /\ slast' = IF sret # NoError THEN "StartFailed"
                ELSE IF sctx = "done" THEN "StartCancelled"
                ELSE "Started"
    /\ spc' = "idle"
    /\ sret' = NoError
    /\ UNCHANGED <<sctx, sfree, sreg, sshut, sln, sgo, scycle>>
    /\ UNCHANGED outsideServer

\* The spawned goroutine enters s.server.Serve(ln): on a server that was
\* shut down Serve returns ErrServerClosed at once and its deferred Close
\* closes the listener; otherwise the accept loop starts.
ServeRun(c) ==
    /\ sgo[c] = "spawned"
    /\ IF sshut
          THEN /\ sgo' = [sgo EXCEPT ![c] = "exited"]
               /\ sln' = [sln EXCEPT ![c] = "closed"]
          ELSE /\ sgo' = [sgo EXCEPT ![c] = "serving"]
               /\ UNCHANGED sln
    /\ UNCHANGED <<spc, sctx, sfree, sret, slast, sreg, sshut, scycle>>
    /\ UNCHANGED outsideServer

\* Accept fails on the closed listener: Serve returns ErrServerClosed.
ServeExit(c) ==
    /\ sgo[c] = "serving"
    /\ sln[c] = "closed"
    /\ sgo' = [sgo EXCEPT ![c] = "exited"]
    /\ UNCHANGED <<spc, sctx, sfree, sret, slast, sreg, sshut, sln, scycle>>
    /\ UNCHANGED outsideServer

\* ------------------------------------------------------------------- Stop
\* return s.server.Shutdown(shutdownCtx)
ServerStop ==
    /\ spc = "idle"
    /\ sshut' = TRUE
    /\ sln' = ShutdownListeners
    /\ sret' = NoError
    /\ sreg' = (sreg /\ slast = "Started")
    /\ spc' = "StopReturn"
    /\ UNCHANGED <<sctx, sfree, slast, sgo, scycle>>
    /\ UNCHANGED outsideServer

ServerStopReturn ==
    /\ spc = "StopReturn"
    /\ slast' = "Stopped"
    /\ spc' = "idle"
    /\ sret' = NoError
    /\ UNCHANGED <<sctx, sfree, sreg, sshut, sln, sgo, scycle>>
    /\ UNCHANGED outsideServer

\* ==================================================================
\* The metrics middleware, with Recovery and the handlers inside it
\* ==================================================================
\* The router installs MetricsMiddleware before Recovery, so Recovery and
\* everything after it run inside next.ServeHTTP of the metrics middleware.
\* Each request is served by a goroutine of its own.
Requests == 1..MaxRequests
NoStatus == 0

MetricsInit ==
    /\ mpc = [r \in Requests |-> "out"]
    /\ minflight = 0
    /\ mstatus = [r \in Requests |-> NoStatus]

\* The leave that skips the decrement for a request that has panicked.
MetricsDeferUnlessPanic(r) ==
    /\ mpc[r] = "Defer"
    /\ minflight' = IF mstatus[r] = StatusInternalServerError
                       THEN minflight ELSE minflight - 1
    /\ mpc' = [mpc EXCEPT ![r] = "out"]
    /\ mstatus' = [mstatus EXCEPT ![r] = NoStatus]
    /\ UNCHANGED outsideMetrics

\* metricsProvider.RequestsInFlight.Add(ctx, 1), and the decrement deferred.
MetricsEnter(r) ==
    /\ mpc[r] = "out"
    /\ minflight' = minflight + 1
    /\ mpc' = [mpc EXCEPT ![r] = "Next"]
    /\ UNCHANGED mstatus
    /\ UNCHANGED outsideMetrics

\* next.ServeHTTP(ww, r): Recovery installs its deferred recover and calls
\* the rest of the chain.
RecoveryNext(r) ==
    /\ mpc[r] = "Next"
    /\ mpc' = [mpc EXCEPT ![r] = "Handler"]
    /\ UNCHANGED <<minflight, mstatus>>
    /\ UNCHANGED outsideMetrics

\* The rest of the chain writes a response and returns, or panics.
HandlerEnds(r, panics) ==
    /\ mpc[r] = "Handler"
    /\ IF panics
          THEN /\ mpc' = [mpc EXCEPT ![r] = "Panicking"]
               /\ UNCHANGED mstatus
          ELSE /\ mpc' = [mpc EXCEPT ![r] = "Returned"]
               /\ mstatus' = [mstatus EXCEPT ![r] = StatusOK]
    /\ UNCHANGED minflight
    /\ UNCHANGED outsideMetrics

\* Recovery's deferred function recovers the panic and answers 500; Recovery
\* then returns normally to the metrics middleware.
RecoveryRecover(r) ==
    /\ mpc[r] = "Panicking"
    /\ mstatus' = [mstatus EXCEPT ![r] = StatusInternalServerError]
    /\ mpc' = [mpc EXCEPT ![r] = "Returned"]
    /\ UNCHANGED minflight
    /\ UNCHANGED outsideMetrics

\* After next.ServeHTTP: the request is counted and its duration recorded
\* under the status written.
MetricsRecord(r) ==
    /\ mpc[r] = "Returned"
    /\ mpc' = [mpc EXCEPT ![r] = "Defer"]
    /\ UNCHANGED <<minflight, mstatus>>
    /\ UNCHANGED outsideMetrics

\* The deferred metricsProvider.RequestsInFlight.Add(ctx, -1) runs and the
\* middleware returns.
MetricsDefer(r) ==
    /\ mpc[r] = "Defer"
    /\ minflight' = minflight - 1
    /\ mpc' = [mpc EXCEPT ![r] = "out"]
    /\ mstatus' = [mstatus EXCEPT ![r] = NoStatus]
    /\ UNCHANGED outsideMetrics

Next ==
    \/ \E p \in Procs, e \in Entities : SaveLock(p, e)
    \/ \E p \in Procs : SaveCheck(p)
    \/ \E p \in Procs : SaveInsert(p)
    \/ \E p \in Procs : SaveUnlock(p)
    \/ \E p \in Procs, k \in IDs : GetByIDLock(p, k)
    \/ \E p \in Procs : GetByIDRead(p)
    \/ \E p \in Procs : GetByIDUnlock(p)
    \/ \E p \in Procs, e \in Entities : UpdateLock(p, e)
    \/ \E p \in Procs : UpdateCheck(p)
    \/ \E p \in Procs : UpdateWrite(p)
    \/ \E p \in Procs : UpdateUnlock(p)
    \/ \E p \in Procs, k \in IDs : DeleteLock(p, k)
    \/ \E p \in Procs : DeleteCheck(p)
    \/ \E p \in Procs : DeleteRemove(p)
    \/ \E p \in Procs : DeleteUnlock(p)
    \/ \E p \in Procs : ListLock(p)
    \/ \E p \in Procs : ListRead(p)
    \/ \E p \in Procs : ListUnlock(p)
    \/ \E p \in Procs : CountLock(p)
    \/ \E p \in Procs : CountRead(p)
    \/ \E p \in Procs : CountUnlock(p)

Init ==
    /\ StoreInit /\ HealthInit /\ ReadyInit /\ ExampleInit /\ LifeInit
    /\ ServerInit /\ MetricsInit

Spec == Init /\ [][Next]_vars

NextAlias == Next \/ \E e \in Entities, n \in Names : CallerMutate(e, n)

SpecAlias == Init /\ [][NextAlias]_vars

HealthNext ==
    \/ \E p \in Procs, c \in Checkers \cup {NilChecker} : RegisterLock(p, c)
    \/ \E p \in Procs : RegisterLoad(p)
    \/ \E p \in Procs : RegisterStore(p)
    \/ \E p \in Procs : RegisterUnlock(p)
    \/ \E p \in Procs, op \in {"CheckAll", "IsHealthy"} : CheckAllRLock(p, op)
    \/ \E p \in Procs : CheckAllCopy(p)
    \/ \E p \in Procs : CheckAllRUnlock(p)
    \/ \E p \in Procs : CheckAllLoop(p)
    \/ \E p \in Procs, o \in CheckOutcomes : CheckReturns(p, o)
    \/ \E p \in Procs : IsHealthyLoop(p)
    \/ \E p \in Procs : HealthReturn(p)
    \/ \E p \in Procs : Recover(p)

SpecHealth == Init /\ [][HealthNext]_vars

ReadinessNext ==
    \/ \E m \in ResultMaps : \E keys \in KeyOrders(m) : ReadinessCheckAll(m, keys)
    \/ ReadinessRange
    \/ ReadinessRespond
    \/ ReadinessReturn

SpecReadiness == Init /\ [][ReadinessNext]_vars

ExampleNext ==
    \/ \E i \in IDs : HandlerGetEntity(i)
    \/ \E i \in IDs : \E r \in GetByIDOutcomes(i) : UsecaseGetEntity(r)
    \/ \E i \in IDs, email \in Emails, name \in EntityNames,
          valid \in {"decode", "validation", "invalid", "ok"} :
              HandlerCreateEntity(i, email, name, valid)
    \/ UsecaseNewEntity
    \/ UsecaseChecker
    \/ \E err \in SaveOutcomes(eentity) : UsecaseSave(err)
    \/ HandlerReturn
    \/ ErrorHandler
    \/ ExampleDone

SpecExample == Init /\ [][ExampleNext]_vars

LifeNext ==
    \/ \E p \in Procs : StartLock(p)
    \/ \E p \in Procs, err \in {NoError, ErrClose} : StartCloseOld(p, err)
    \/ \E p \in Procs, ok \in BOOLEAN : StartNew(p, ok)
    \/ \E p \in Procs, ok \in BOOLEAN : StartPing(p, ok)
    \/ \E p \in Procs : StartUnlock(p)
    \/ \E p \in Procs, ctx \in {"live", "done"} : StopLock(p, ctx)
    \/ \E p \in Procs : StopCheck(p)
    \/ \E p \in Procs : CtxDone(p)
    \/ \E p \in Procs, err \in {NoError, ErrClose} : CloserRun(p, err)
    \/ \E p \in Procs : CloserExit(p)
    \/ \E p \in Procs : StopSelectDone(p)
    \/ \E p \in Procs : StopSelectCtx(p)
    \/ \E p \in Procs : StopUnlock(p)
    \/ \E p \in Procs : ConnectionLock(p, FALSE)
    \/ \E p \in Procs : ConnectionUnlock(p)

SpecLife == Init /\ [][LifeNext]_vars

\* The Lifecycle's callers together with goroutines that run
\* DatabaseChecker.Check on it.
CheckerNext ==
    \/ \E p \in Procs : StartLock(p)
    \/ \E p \in Procs, err \in {NoError, ErrClose} : StartCloseOld(p, err)
    \/ \E p \in Procs, ok \in BOOLEAN : StartNew(p, ok)
    \/ \E p \in Procs, ok \in BOOLEAN : StartPing(p, ok)
    \/ \E p \in Procs : StartUnlock(p)
    \/ \E p \in Procs, ctx \in {"live", "done"} : StopLock(p, ctx)
    \/ \E p \in Procs : StopCheck(p)
    \/ \E p \in Procs : CtxDone(p)
    \/ \E p \in Procs, err \in {NoError, ErrClose} : CloserRun(p, err)
    \/ \E p \in Procs : CloserExit(p)
    \/ \E p \in Procs : StopSelectDone(p)
    \/ \E p \in Procs : StopSelectCtx(p)
    \/ \E p \in Procs : StopUnlock(p)
    \/ \E p \in Procs, check \in BOOLEAN : ConnectionLock(p, check)
    \/ \E p \in Procs : ConnectionUnlock(p)
    \/ \E p \in Procs, ok \in BOOLEAN : DatabaseCheck(p, ok)
    \/ \E p \in Procs : DatabaseCheckReturn(p)

SpecChecker == Init /\ [][CheckerNext]_vars

\* Goroutines that call Start, Connection and DatabaseChecker.Check only.
StartsNext ==
    \/ \E p \in Procs : StartLock(p)
    \/ \E p \in Procs, err \in {NoError, ErrClose} : StartCloseOld(p, err)
    \/ \E p \in Procs, ok \in BOOLEAN : StartNew(p, ok)
    \/ \E p \in Procs, ok \in BOOLEAN : StartPing(p, ok)
    \/ \E p \in Procs : StartUnlock(p)
    \/ \E p \in Procs, check \in BOOLEAN : ConnectionLock(p, check)
    \/ \E p \in Procs : ConnectionUnlock(p)
    \/ \E p \in Procs, ok \in BOOLEAN : DatabaseCheck(p, ok)
    \/ \E p \in Procs : DatabaseCheckReturn(p)

SpecStarts == Init /\ [][StartsNext]_vars

ServerNext ==
    \/ \E free \in BOOLEAN, ctx \in {"live", "done"} : ServerStartListen(free, ctx)
    \/ ServerStartSelect
    \/ ServerStartReturn
    \/ \E c \in Cycles : ServeRun(c)
    \/ \E c \in Cycles : ServeExit(c)
    \/ ServerStop
    \/ ServerStopReturn

SpecServer == Init /\ [][ServerNext]_vars

MetricsNext ==
    \/ \E r \in Requests : MetricsEnter(r)
    \/ \E r \in Requests : RecoveryNext(r)
    \/ \E r \in Requests, panics \in BOOLEAN : HandlerEnds(r, panics)
    \/ \E r \in Requests : RecoveryRecover(r)
    \/ \E r \in Requests : MetricsRecord(r)
    \/ \E r \in Requests : MetricsDefer(r)

SpecMetrics == Init /\ [][MetricsNext]_vars

\* ==================================================================
\* Properties of the repository
\* ==================================================================
RECURSIVE SumOver(_, _)
SumOver(f, S) ==
    IF S = {} THEN 0
    ELSE LET k == CHOOSE x \in S : TRUE IN f[k] + SumOver(f, S \ {k})

Writing(p) == pc[p] \in {"SaveCheck", "SaveInsert", "SaveUnlock",
                         "UpdateCheck", "UpdateWrite", "UpdateUnlock",
                         "DeleteCheck", "DeleteRemove", "DeleteUnlock"}
Reading(p) == pc[p] \in {"GetByIDRead", "GetByIDUnlock", "ListRead", "ListUnlock",
                         "CountRead", "CountUnlock"}

\* C1: on a store where no Update or Delete has written identifier k, once any
\* Save call with identifier k has returned, exactly one of the Save calls with
\* that identifier that have returned got nil, all the others got
\* ErrAlreadyExists, and the store holds under k the entity passed to the call
\* that got nil. The calls are issued by concurrent goroutines in any order.
C1_OneSaveWins ==
    /\ \A k \in IDs :
          (~touched[k] /\ saveOk[k] + saveDup[k] >= 1) =>
              /\ saveOk[k] = 1
              /\ Has(data, k)
              /\ data[k] = okEntity[k]
    /\ \A p \in Procs :
          pc[p] = "SaveUnlock" => ret[p].err \in {NoError, ErrAlreadyExists}

\* Two Save calls with the same identifier and different entities have both
\* returned: the second entity is the stored one, the other call failed.
C1_Witness ==
    \E k \in IDs :
        /\ ~touched[k]
        /\ saveOk[k] = 1
        /\ saveDup[k] = 1
        /\ okEntity[k].ref = 2

\* C2: when the Save calls made so far have pairwise distinct identifiers (the
\* empty string among them), nothing else has written the store and all the
\* calls have returned, every call returned nil, Count is the number of calls
\* and GetByID of each identifier returns the entity saved under it.
C2_DistinctSavesSucceed ==
    ( /\ \A k \in IDs : ~touched[k] /\ SaveCalls(k) <= 1
      /\ \A k \in IDs : SavesInFlight(k) = 0 )
    =>
    ( /\ \A k \in IDs : saveDup[k] = 0
      /\ Len_(data) = SumOver([k \in IDs |-> SaveCalls(k)], IDs)
      /\ \A k \in IDs :
            SaveCalls(k) = 1 =>
                GetByIDResult(data, k) = [val |-> okEntity[k], err |-> NoError] )

C2_Witness ==
    /\ \A k \in IDs : ~touched[k] /\ SaveCalls(k) = 1 /\ SavesInFlight(k) = 0
    /\ saveOk[""] = 1
    /\ Len_(data) = Cardinality(IDs)

\* C3: a Save that is about to return ErrAlreadyExists has left the map as it
\* was when the call entered its critical section: the same entity under the
\* identifier, the same entities under the others, the same count.
C3_FailedSaveChangesNothing ==
    \A p \in Procs :
        (pc[p] = "SaveUnlock" /\ ret[p].err = ErrAlreadyExists) =>
            /\ data = before[p]
            /\ Len_(data) = Len_(before[p])
            /\ Has(data, id[p])
            /\ data[id[p]] = before[p][id[p]]

C3_Witness ==
    \E p \in Procs :
        /\ pc[p] = "SaveUnlock"
        /\ ret[p].err = ErrAlreadyExists
        /\ Has(data, id[p])
        /\ data[id[p]] # entity[p]
        /\ Len_(data) = 2

\* C4: GetByID, Update and Delete called with an identifier that the store does
\* not hold when the call enters its critical section (never saved, or deleted)
\* return ErrNotFound and leave the map as it was; Update creates nothing.
C4_AbsentIsNotFound ==
    \A p \in Procs :
        (pc[p] \in {"GetByIDUnlock", "UpdateUnlock", "DeleteUnlock"}
         /\ ~Has(before[p], id[p])) =>
            /\ ret[p].err = ErrNotFound
            /\ ret[p].val = NoEntity
            /\ data = before[p]
            /\ ~Has(data, id[p])

\* An Update of an identifier that was saved and then deleted, while the store
\* holds another record.
C4_Witness ==
    \E p \in Procs :
        /\ pc[p] = "UpdateUnlock"
        /\ ret[p].err = ErrNotFound
        /\ touched[id[p]]
        /\ Len_(data) = 1

\* C5: a Delete that is about to return nil has removed the identifier
\* (GetByID of it gives ErrNotFound), the count is one less than when the call
\* entered its critical section and every other identifier holds the entity it
\* held.
C5_DeleteRemovesOne ==
    \A p \in Procs :
        (pc[p] = "DeleteUnlock" /\ ret[p].err = NoError) =>
            /\ GetByIDResult(data, id[p]) = [val |-> NoEntity, err |-> ErrNotFound]
            /\ Len_(data) = Len_(before[p]) - 1
            /\ \A k \in DOMAIN before[p] \ {id[p]} : Has(data, k) /\ data[k] = before[p][k]

C5_Witness ==
    \E p \in Procs :
        /\ pc[p] = "DeleteUnlock"
        /\ ret[p].err = NoError
        /\ Len_(before[p]) = 2
        /\ Len_(data) = 1

\* C6: an Update that is about to return nil has replaced the entity under its
\* identifier and nothing else: GetByID of the identifier gives the new entity,
\* the count and the entities under the other identifiers are as they were.
C6_UpdateReplacesOne ==
    \A p \in Procs :
        (pc[p] = "UpdateUnlock" /\ ret[p].err = NoError) =>
            /\ GetByIDResult(data, id[p]) = [val |-> entity[p], err |-> NoError]
            /\ id[p] = GetID(entity[p])
            /\ Len_(data) = Len_(before[p])
            /\ DOMAIN data = DOMAIN before[p]
            /\ \A k \in DOMAIN before[p] \ {id[p]} : data[k] = before[p][k]

C6_Witness ==
    \E p \in Procs :
        /\ pc[p] = "UpdateUnlock"
        /\ ret[p].err = NoError
        /\ before[p][id[p]] # entity[p]
        /\ Len_(data) = 2

\* C7: in every state, every slice List can build has as many elements as
\* Count gives, one element per stored identifier; a List about to return
\* gives such a slice and a nil error, a Count about to return gives the number
\* of stored identifiers and a nil error, and a List and a Count that hold the
\* read lock together agree. On the empty store the slice is empty.
OnePerIdentifier(s, m) ==
    /\ Len(s) = Len_(m)
    /\ {GetID(s[i]) : i \in 1..Len(s)} = DOMAIN m
    /\ \A i \in 1..Len(s) : Has(m, GetID(s[i])) /\ s[i] = m[GetID(s[i])]
    /\ \A i, j \in 1..Len(s) : i # j => GetID(s[i]) # GetID(s[j])

C7_CountIsListLength ==
    /\ \A s \in RangeSlices(data) : OnePerIdentifier(s, data)
    /\ RangeSlices(data) # {}
    /\ data = EmptyMap => RangeSlices(data) = {<<>>}
    /\ \A p \in Procs :
          /\ pc[p] = "ListUnlock" =>
                ret[p].err = NoError /\ OnePerIdentifier(ret[p].val, data)
          /\ pc[p] = "CountUnlock" =>
                ret[p].err = NoError /\ ret[p].val = Len_(data)
    /\ \A p, q \in Procs :
          (pc[p] = "ListUnlock" /\ pc[q] = "CountUnlock") => Len(ret[p].val) = ret[q].val

C7_Witness ==
    \E p, q \in Procs :
        /\ pc[p] = "ListUnlock"
        /\ pc[q] = "CountUnlock"
        /\ ret[q].val = 2
        /\ Len(ret[p].val) = 2

\* C8: two goroutines are inside critical sections of the repository together
\* only when both run GetByID, List or Count; and while a reader is inside its
\* critical section the map is the one it found when it entered.
C8_MutualExclusion ==
    /\ \A p, q \in Procs :
          (p # q /\ pc[p] # "idle" /\ pc[q] # "idle") => (Reading(p) /\ Reading(q))
    /\ \A p \in Procs : Reading(p) => data = before[p]
    /\ \A p \in Procs : Writing(p) => writer = p
    /\ \A p \in Procs : Reading(p) => p \in readers /\ writer = NoProc

\* A GetByID and a List overlap.
C8_Witness ==
    \E p, q \in Procs :
        /\ pc[p] = "GetByIDUnlock"
        /\ pc[q] = "ListUnlock"
        /\ Len_(data) > 0

\* The fields seen through what GetByID and List return for each identifier.
Visible == [k \in DOMAIN data |-> [ID |-> GetID(data[k]), Name |-> objName[data[k]]]]

\* A step in which a Save, an Update or a Delete of the repository writes the map.
StoreWrites ==
    \E p \in Procs : pc[p] \in {"SaveInsert", "UpdateWrite", "DeleteRemove"} /\ pc'[p] # pc[p]

\* C9, as claimed: what GetByID and List return for an identifier changes only
\* in a step of the repository's Save, Update or Delete, whatever a caller does
\* to an object it passed in or got back.
C9_NoAliasing == [][Visible' # Visible => StoreWrites]_vars

\* C9, amended: which object the repository holds under which identifier
\* changes only in a step of the repository's Save, Update or Delete.
C9_MapOwned == [][data' # data => StoreWrites]_vars

\* A caller has written the Name of an object the repository holds.
C9_Witness ==
    \E k \in DOMAIN data : objName[data[k]] = "n1"

\* ==================================================================
\* Properties of the health manager
\* ==================================================================
NoUnhealthy(m) == \A n \in DOMAIN m : m[n].Status # StatusUnhealthy

LastOfName(p, i) ==
    \A j \in (i + 1)..Len(hlocal[p]) : Name(hlocal[p][j]) # Name(hlocal[p][i])

\* What CheckAll stores for a report: the result with the measured latency.
Stored(o) == [o.result EXCEPT !.Latency = o.elapsed]

\* C11: for every registry, if at least one registered probe reports unhealthy
\* status in a round, IsHealthy returns false for that round.
C11_AnyUnhealthyReport ==
    \A p \in Procs :
        (hpc[p] = "Return" /\ hop[p] = "IsHealthy") =>
            ((\E i \in 1..Len(hreports[p]) :
                 hreports[p][i].result.Status = StatusUnhealthy)
             => hret[p].healthy = FALSE)

\* C11, amended: an IsHealthy that returns gives false if, for some name, the
\* probe registered last under that name reported unhealthy in its round; an
\* unhealthy report of a probe followed in the registry by a probe of the same
\* name is overwritten and does not count.
C11_LastUnhealthyReport ==
    \A p \in Procs :
        (hpc[p] = "Return" /\ hop[p] = "IsHealthy") =>
            ((\E i \in 1..Len(hreports[p]) :
                 /\ hreports[p][i].result.Status = StatusUnhealthy
                 /\ LastOfName(p, i))
             => hret[p].healthy = FALSE)

\* An IsHealthy round over two probes of different names, the first of which
\* reported unhealthy and the second healthy, is about to return false.
C11_Witness ==
    \E p \in Procs :
        /\ hpc[p] = "Return"
        /\ hop[p] = "IsHealthy"
        /\ Len(hreports[p]) = 2
        /\ Name(hlocal[p][1]) # Name(hlocal[p][2])
        /\ hreports[p][1].result.Status = StatusUnhealthy
        /\ hreports[p][2].result.Status = StatusHealthy
        /\ hret[p].healthy = FALSE


\* C12: the mapping a CheckAll (or the CheckAll of an IsHealthy) is about to
\* return has exactly one entry per distinct probe name of the round's
\* snapshot, and the entry of a name is what the probe registered last under
\* that name reported, with the latency measured for it.
C12_OneEntryPerName ==
    \A p \in Procs :
        hpc[p] = "Return" =>
            /\ DOMAIN hret[p].map =
                  {Name(hlocal[p][i]) : i \in 1..Len(hlocal[p])}
            /\ Len(hreports[p]) = Len(hlocal[p])
            /\ \A i \in 1..Len(hlocal[p]) :
                  LastOfName(p, i) =>
                      hret[p].map[Name(hlocal[p][i])] = Stored(hreports[p][i])

\* A round over two probes of one name that reported differently returns one
\* entry, the second probe's.
C12_Witness ==
    \E p \in Procs :
        /\ hpc[p] = "Return"
        /\ Len(hlocal[p]) = 2
        /\ Name(hlocal[p][1]) = Name(hlocal[p][2])
        /\ hreports[p][1] # hreports[p][2]
        /\ Len_(hret[p].map) = 1
        /\ hret[p].map[Name(hlocal[p][2])] = Stored(hreports[p][2])


\* The loop of p's round has ended: it ran to the end of the snapshot, or it
\* panicked.
RoundOver(p) == hpc[p] \in {"IsHealthyLoop", "Return", "panicked"}

\* How many times p's round has called the probe at position i.
CallsOf(p, i) == Cardinality({k \in 1..Len(hcalls[p]) : hcalls[p][k][1] = i})

\* C13: when the loop of a round has ended, every probe that was in the
\* round's snapshot has been invoked exactly once.
C13_EveryProbeInvoked ==
    \A p \in Procs :
        RoundOver(p) =>
            \A i \in 1..Len(hlocal[p]) :
                hlocal[p][i] # NilChecker => CallsOf(p, i) = 1

\* C13, amended: the snapshot is the registry as it was under the read lock;
\* the calls a round has made are the probes at positions 1, 2, ... of the
\* snapshot, each once, each with the context passed to the round, and a call
\* is made only when every earlier call has returned; a round that returns has
\* called every position; a round that panics stopped at a nil probe, and the
\* probes after it were not called.
C13_InOrderOnce ==
    \A p \in Procs :
        /\ hpc[p] = "CheckAllRUnlock" => hlocal[p] = checkers
        /\ hop[p] \in {"CheckAll", "IsHealthy"} =>
              /\ hcalls[p] = [k \in 1..Len(hcalls[p]) |-> <<k, CtxOf(p)>>]
              /\ Len(hcalls[p]) <= Len(hlocal[p])
              /\ Len(hreports[p]) =
                    Len(hcalls[p]) - (IF hpc[p] = "InCheck" THEN 1 ELSE 0)
              /\ hpc[p] \in {"IsHealthyLoop", "Return"} =>
                    Len(hcalls[p]) = Len(hlocal[p])
              /\ hpc[p] = "panicked" =>
                    /\ Len(hcalls[p]) < Len(hlocal[p])
                    /\ hlocal[p][Len(hcalls[p]) + 1] = NilChecker

\* A round over two probes is about to return, having called both, while
\* another goroutine's round is inside a call of its own.
C13_Witness ==
    \E p, q \in Procs :
        /\ p # q
        /\ hpc[p] = "Return"
        /\ Len(hlocal[p]) = 2
        /\ Len(hcalls[p]) = 2
        /\ hpc[q] = "InCheck"


\* p's round has taken its snapshot.
HasSnapshot(p) ==
    hpc[p] \in {"CheckAllRUnlock", "CheckAllLoop", "InCheck", "IsHealthyLoop",
                "Return", "panicked"}

\* C14: when the loop of a round has ended, every probe whose Register call
\* had returned before the round started has been invoked by the round.
C14_LaterRoundsInvoke ==
    \A p \in Procs :
        RoundOver(p) =>
            \A i \in 1..hstart[p] :
                hdone[i] # NilChecker => CallsOf(p, i) = 1

\* C14, amended: in every interleaving the registry starts with the probes of
\* the Register calls that have returned, in the order they returned, followed
\* only by the probe of a Register call that has appended and not yet
\* returned; the snapshot of a round starts with the probes of the Register
\* calls that had returned when the round started; and a round that runs to
\* the end of its snapshot has invoked each of them.
C14_NoLostRegistration ==
    /\ Len(hdone) = hregistered
    /\ Len(checkers) =
          hregistered + Cardinality({q \in Procs : hpc[q] = "RegisterUnlock"})
    /\ SubSeq(checkers, 1, hregistered) = hdone
    /\ \A p \in Procs :
          HasSnapshot(p) =>
              /\ Len(hlocal[p]) >= hstart[p]
              /\ SubSeq(hlocal[p], 1, hstart[p]) = SubSeq(hdone, 1, hstart[p])
              /\ hpc[p] \in {"IsHealthyLoop", "Return"} =>
                    \A i \in 1..hstart[p] : CallsOf(p, i) = 1

\* Two Register calls have returned, the second one while a round that had
\* started after the first was running: the round is about to return having
\* invoked the first probe only.
C14_Witness ==
    \E p \in Procs :
        /\ hpc[p] = "Return"
        /\ hstart[p] = 1
        /\ Len(hlocal[p]) = 1
        /\ CallsOf(p, 1) = 1
        /\ hregistered = 2
        /\ Len(checkers) = 2


\* C15: no round is ever stopped by a probe: a round does not end otherwise
\* than by CheckAll returning a mapping.
C15_RoundNeverStopped ==
    \A p \in Procs :
        hop[p] \in {"CheckAll", "IsHealthy"} => hpc[p] # "panicked"

\* C15, amended: whatever results the probes return, the loop goes on to the
\* next position after each of them, and a round that returns has a report of
\* every probe of its snapshot and returns a mapping with an entry for each of
\* their names; the only thing that stops a round is the call of a nil probe.
C15_ResultNeverStopsRound ==
    \A p \in Procs :
        /\ hpc[p] = "CheckAllLoop" => hi[p] = Len(hreports[p]) + 1
        /\ hpc[p] = "Return" =>
              /\ Len(hreports[p]) = Len(hlocal[p])
              /\ \A i \in 1..Len(hlocal[p]) : Has(hret[p].map, Name(hlocal[p][i]))
        /\ hpc[p] = "panicked" => hlocal[p][hi[p]] = NilChecker

\* A CheckAll whose first probe reported unhealthy with an error has gone on
\* to the second probe and is about to return a mapping with both entries.
C15_Witness ==
    \E p \in Procs :
        /\ hpc[p] = "Return"
        /\ hop[p] = "CheckAll"
        /\ Len(hreports[p]) = 2
        /\ hreports[p][1].result.Status = StatusUnhealthy
        /\ hreports[p][1].result.Error # ""
        /\ Len_(hret[p].map) = 2


\* ==================================================================
\* Properties of the readiness handler
\* ==================================================================
\* C16: when the handler has responded, the overall status is fail if any
\* result of the mapping is unhealthy, otherwise warn if any result has a
\* status that is neither healthy nor unhealthy, otherwise pass, in whatever
\* order the mapping was iterated; the HTTP status is 503 exactly when the
\* overall status is fail and 200 otherwise.
C16_OverallStatus ==
    rpc = "Responded" =>
        /\ roverall =
              IF \E n \in DOMAIN rmap : rmap[n].Status = StatusUnhealthy
                 THEN StatusFail
              ELSE IF \E n \in DOMAIN rmap :
                         rmap[n].Status \notin {StatusHealthy, StatusUnhealthy}
                 THEN StatusWarn
              ELSE StatusPass
        /\ (rcode = 503) = (roverall = StatusFail)
        /\ (rcode = 200) = (roverall # StatusFail)

\* The handler has answered 503 with fail for a mapping with an unhealthy
\* result and a result of unknown status.
C16_Witness ==
    /\ rpc = "Responded"
    /\ Len_(rmap) = 2
    /\ \E n \in DOMAIN rmap : rmap[n].Status = StatusUnhealthy
    /\ \E n \in DOMAIN rmap : rmap[n].Status = StatusOther
    /\ roverall = StatusFail
    /\ rcode = 503


\* ==================================================================
\* Properties of the example repository, its use case and its handlers
\* ==================================================================
\* C17: a Save of the example repository that found its identifier stored
\* returns an AlreadyExistsError whose ID is that identifier; a GetByID that
\* found its identifier absent returns a nil entity with ErrEntityNotFound;
\* errors.As and errors.Is tell the two apart, and also tell ErrEntityNotFound
\* from the embedded repository's error of the same text.
C17_DomainErrors ==
    \A p \in Procs :
        /\ (pc[p] = "SaveUnlock" /\ Has(before[p], GetID(entity[p]))) =>
              LET err == RepositorySave(entity[p], ret[p].err)
              IN /\ ErrorsAs(err, "*example.AlreadyExistsError")
                 /\ err.ID = GetID(entity[p])
                 /\ ~ErrorsIs(err, ErrEntityNotFound)
        /\ (pc[p] = "SaveUnlock" /\ ~Has(before[p], GetID(entity[p]))) =>
              RepositorySave(entity[p], ret[p].err) = NilError
        /\ (pc[p] = "GetByIDUnlock" /\ ~Has(before[p], id[p])) =>
              LET r == RepositoryGetByID(ret[p])
              IN /\ r.val = NoEntity
                 /\ ErrorsIs(r.err, ErrEntityNotFound)
                 /\ ~ErrorsAs(r.err, "*example.AlreadyExistsError")
                 /\ ~ErrorsIs(r.err, PlatformError(ErrNotFound))
                 /\ r.err.msg = PlatformError(ErrNotFound).msg
        /\ (pc[p] = "GetByIDUnlock" /\ Has(before[p], id[p])) =>
              RepositoryGetByID(ret[p]) = [val |-> before[p][id[p]], err |-> NilError]

\* A Save of a second entity with a stored identifier is about to return the
\* AlreadyExistsError for that identifier.
C17_Witness ==
    \E p \in Procs :
        /\ pc[p] = "SaveUnlock"
        /\ GetID(entity[p]) = "a"
        /\ Has(before[p], "a")
        /\ before[p]["a"] # entity[p]
        /\ RepositorySave(entity[p], ret[p].err) = AlreadyExistsError("a")


\* The use case has returned an error to the handler and the response has
\* been written.
UsecaseFailed == epc = "Responded" /\ euret.err.type # "nil"

\* C18: when a use case returned an error to an example handler, the response
\* status is 409 for an AlreadyExistsError, 404 for ErrEntityNotFound, 400 for
\* an invalid id, email or name and for a reserved name, and for any other
\* error it is 500 with the body {"error": "internal server error"}, in which
\* no piece of the error's own text appears.
C18_ErrorMapping ==
    UsecaseFailed =>
        LET err == euret.err
        IN IF ErrorsAs(err, "*example.AlreadyExistsError") THEN eresp.status = 409
           ELSE IF ErrorsIs(err, ErrEntityNotFound) THEN eresp.status = 404
           ELSE IF \/ ErrorsIs(err, ErrInvalidEntityID)
                   \/ ErrorsIs(err, ErrInvalidEmail)
                   \/ ErrorsIs(err, ErrInvalidName)
                   \/ ErrorsIs(err, ErrReservedName) THEN eresp.status = 400
           ELSE /\ eresp.status = 500
                /\ eresp.body = <<"error", <<"internal server error">>>>
                /\ \A k \in 1..Len(err.msg) :
                      \A j \in 1..Len(eresp.body[2]) : eresp.body[2][j] # err.msg[k]

\* The repository failed with a driver error: the response is the 500.
C18_Witness ==
    /\ UsecaseFailed
    /\ euret.err = ErrConnDone
    /\ eresp.status = 500

\* C19: CreateEntity calls NewEntity, then the checker, then Save, each only
\* if the one before returned nil; NewEntity is what validates the fields; a
\* CreateEntity that has returned gives a nil entity and the error of the
\* last call it made when that call failed, and the entity NewEntity made and
\* nil after a Save that returned nil.
C19_StopsAtFirstFailure ==
    eop = "CreateEntity" =>
        /\ Len(ecalls) <= 3
        /\ \A k \in 1..Len(ecalls) :
              /\ ecalls[k][1] = <<"NewEntity", "CheckEntityForCreation", "Save">>[k]
              /\ k < Len(ecalls) => ecalls[k][2] = NilError
        /\ Len(ecalls) >= 1 =>
              ecalls[1][2] =
                  IF eargs.id = "" THEN ErrInvalidEntityID
                  ELSE IF eargs.name = "" THEN ErrInvalidName
                  ELSE IF eargs.email # "a@b.co" THEN ErrInvalidEmail
                  ELSE NilError
        /\ (epc \in {"HandlerReturn", "ErrorHandler", "Responded"} /\ ecalls # <<>>) =>
              LET last == ecalls[Len(ecalls)][2]
              IN IF last # NilError
                    THEN euret = [val |-> NilEntity, err |-> last]
                    ELSE /\ Len(ecalls) = 3
                         /\ euret = [val |-> eentity, err |-> NilError]
                         /\ eentity = [ID |-> eargs.id, Email |-> eargs.email,
                                       Name |-> eargs.name]

\* CreateEntity has returned the checker's error for a valid entity with a
\* reserved name: Save was not called.
C19_Witness ==
    /\ eop = "CreateEntity"
    /\ epc = "HandlerReturn"
    /\ Len(ecalls) = 2
    /\ ecalls[2] = <<"CheckEntityForCreation", ErrReservedName>>
    /\ eargs.name = "Admin"
    /\ euret = [val |-> NilEntity, err |-> ErrReservedName]


\* ==================================================================
\* Properties of the database Lifecycle
\* ==================================================================
\* C20: a Stop that is about to return, with or without an error, leaves no
\* connection in the Lifecycle, and from the return of a Stop until a Start
\* installs a connection the field is nil and every Connection() returns nil;
\* a Stop that found no connection returns nil, spawns nothing and closes
\* nothing.
C20_StoppedHoldsNothing ==
    /\ \A p \in Procs :
          lpc[p] = "StopUnlock" =>
              /\ ldb = NoConn
              /\ lheld[p] = NoConn =>
                    /\ lret[p].err = NoError
                    /\ lcloser[p] = "none"
    /\ llast # "none" => ldb = NoConn
    /\ \A p \in Procs :
          (lpc[p] = "ConnectionUnlock" /\ llast # "none") => lret[p].db = NoConn

\* After a Stop that timed out on a started Lifecycle, a Connection() is
\* about to return nil.
C20_Witness ==
    \E p \in Procs :
        /\ lpc[p] = "ConnectionUnlock"
        /\ llast = ErrCtx
        /\ lnext >= 1
        /\ lret[p].db = NoConn


\* C21: a Start that is about to return an error leaves no connection in the
\* Lifecycle and has closed the connection it opened (if postgres.New gave
\* it one); from the return of a failed Start until the next Start begins
\* the field stays nil, the connection it tried stays closed and every
\* Connection() returns nil.
C21_FailedStartHoldsNothing ==
    /\ \A p \in Procs :
          (lpc[p] = "StartUnlock" /\ lret[p].err # NoError) =>
              /\ ldb = NoConn
              /\ lret[p].err = ErrPing => lnew[p] # NoConn
              /\ lnew[p] # NoConn => lcloses[lnew[p]] >= 1
    /\ lstart \in {ErrOpen, ErrPing} =>
          /\ ldb = NoConn
          /\ lstart = ErrPing => ltried # NoConn
          /\ ltried # NoConn => lcloses[ltried] >= 1
          /\ \A p \in Procs : lpc[p] = "ConnectionUnlock" => lret[p].db = NoConn

\* A Start on a Lifecycle that held a connection opened a second one whose
\* ping failed, and a Connection() after its return is about to return nil.
C21_Witness ==
    \E p \in Procs :
        /\ lpc[p] = "ConnectionUnlock"
        /\ lstart = ErrPing
        /\ ltried = 2
        /\ lcloses[1] >= 1
        /\ lcloses[2] >= 1
        /\ lret[p].db = NoConn


\* C22: with goroutines that call Start (and read with Connection), a Start
\* has closed every connection opened before its own by the time it opens
\* one, so the connection it installs is the only open one; at most one
\* connection is open at any time, outside a Start the open connection is
\* the one in the field, and it is the one a Connection() returns.
C22_OnlyInstalledOpen ==
    /\ Cardinality({c \in Conns : Open(c)}) <= 1
    /\ \A p \in Procs :
          lpc[p] \in {"StartNew", "StartPing", "StartUnlock"} =>
              \A c \in Conns : Open(c) => c = lnew[p]
    /\ \A p \in Procs :
          lpc[p] \in {"StartNew", "StartPing"} => ldb = NoConn
    /\ \A c \in Conns : Open(c) => (c = ldb \/ \E p \in Procs : c = lnew[p])
    /\ ldb # NoConn => Open(ldb)
    /\ \A p \in Procs :
          lpc[p] = "ConnectionUnlock" =>
              \A c \in Conns : Open(c) <=> c = lret[p].db

\* Two Starts have succeeded one after the other: the first connection is
\* closed and a Connection() is about to return the second, open one.
C22_Witness ==
    \E p \in Procs :
        /\ lpc[p] = "ConnectionUnlock"
        /\ lret[p].db = 2
        /\ lcloses[1] = 1
        /\ Open(2)


\* C28: the goroutine a Stop spawns never calls Close on a nil connection,
\* and the connection it calls Close on is the one the Lifecycle held when
\* the Stop spawned it.
C28_ClosesHeldNeverNil ==
    \A p \in Procs :
        /\ lcloser[p] # "panicked"
        /\ lcloser[p] = "sent" => lhit[p] = lgoal[p]


RECURSIVE RoundMap(_, _)
RoundMap(snapshot, reports) ==
    IF reports = <<>> THEN EmptyResults
    ELSE LET n == Len(reports)
         IN Put(RoundMap(snapshot, SubSeq(reports, 1, n - 1)),
                Name(snapshot[n]), Stored(reports[n]))

\* C24: the registry changes only in the assignment of a Register, which
\* appends its probe to what was there, so no step of a CheckAll or IsHealthy
\* round changes it and probes are never removed or reordered; the snapshot
\* of a round stays a prefix of the registry; and the mapping a round has
\* built when its loop ends, which CheckAll returns, is a function of the
\* round's snapshot and of what its probes reported in this round.
C24_RoundsLeaveRegistry ==
    [][ /\ checkers' # checkers =>
              \E p \in Procs :
                  /\ hpc[p] = "RegisterStore"
                  /\ hpc'[p] = "RegisterUnlock"
                  /\ checkers' = Append(checkers, harg[p])
        /\ \A p \in Procs :
              hpc'[p] \in {"IsHealthyLoop", "Return"} =>
                  /\ hlocal'[p] = SubSeq(checkers', 1, Len(hlocal'[p]))
                  /\ hresults'[p] = RoundMap(hlocal'[p], hreports'[p])
                  /\ hpc'[p] = "Return" => hret'[p].map = hresults'[p]
      ]_vars

\* A round over one probe is about to return while the registry has grown
\* to two probes during the round.
C24_Witness ==
    \E p \in Procs :
        /\ hpc[p] = "Return"
        /\ Len(hlocal[p]) = 1
        /\ Len(hreports[p]) = 1
        /\ Len(checkers) = 2
        /\ hregistered = 2


\* C25: a Register(nil) that is about to return has appended the nil probe
\* to the registry, like any other probe; and a CheckAll or IsHealthy round
\* that started after a Register(nil) had returned has the nil probe in its
\* snapshot and never reaches the end of its loop: it returns no mapping and
\* no verdict, and when its loop is over it has panicked.
C25_NilProbePanics ==
    /\ \A p \in Procs :
          hpc[p] = "RegisterUnlock" =>
              /\ Len(checkers) >= 1
              /\ checkers[Len(checkers)] = harg[p]
    /\ \A p \in Procs :
          (HasSnapshot(p) /\ \E i \in 1..hstart[p] : hdone[i] = NilChecker) =>
              /\ \E i \in 1..Len(hlocal[p]) : hlocal[p][i] = NilChecker
              /\ hpc[p] \notin {"IsHealthyLoop", "Return"}
              /\ RoundOver(p) => hpc[p] = "panicked"

\* An IsHealthy round that started after Register(nil) and a Register of a
\* probe had both returned has panicked.
C25_Witness ==
    \E p \in Procs :
        /\ hpc[p] = "panicked"
        /\ hop[p] = "IsHealthy"
        /\ hstart[p] = 2
        /\ \E i \in 1..2 : hdone[i] = NilChecker
        /\ \E i \in 1..2 : hdone[i] # NilChecker


\* p is between taking and releasing the registry lock.
InLockSection(p) ==
    hpc[p] \in {"RegisterLoad", "RegisterStore", "RegisterUnlock",
                "CheckAllCopy", "CheckAllRUnlock"}

\* C29: a round holds the read lock exactly from its RLock to its RUnlock,
\* around the copy of the probe list, and holds no lock while a probe runs;
\* the lock is held only by goroutines inside Register or inside that copy,
\* so while a round sits in a probe call that has not returned (its CheckAll
\* has not returned either) an idle goroutine can take the lock for a
\* Register or start a round of its own unless another goroutine is inside
\* such a section.
C29_NoLockWhileProbing ==
    /\ hreaders = {p \in Procs : hpc[p] \in {"CheckAllCopy", "CheckAllRUnlock"}}
    /\ hwriter # NoProc =>
          hpc[hwriter] \in {"RegisterLoad", "RegisterStore", "RegisterUnlock"}
    /\ \A p \in Procs :
          hpc[p] = "InCheck" =>
              /\ p \notin hreaders
              /\ hwriter # p
              /\ \A q \in Procs :
                    (hpc[q] = "idle" /\ \A r \in Procs : ~InLockSection(r)) =>
                        /\ ENABLED CheckAllRLock(q, "CheckAll")
                        /\ hregistered + RegistersInFlight < MaxCheckers =>
                              \A c \in Checkers : ENABLED RegisterLock(q, c)

\* A Register holds the write lock while another goroutine's round is
\* inside a probe call.
C29_Witness ==
    \E p, q \in Procs :
        /\ hpc[p] = "InCheck"
        /\ hpc[q] = "RegisterStore"
        /\ hwriter = q


\* C26: when the handler has responded, checks has exactly the names of the
\* CheckAll mapping, each with one entry that carries the name and whose
\* output is the result's error string if that is not empty and its message
\* otherwise; notes has one 'Dependency <name> is unavailable' entry for each
\* unhealthy result and nothing else, so none for a healthy result or for a
\* result of another status.
C26_ChecksAndNotes ==
    rpc = "Responded" =>
        /\ DOMAIN rchecks = DOMAIN rmap
        /\ \A n \in DOMAIN rmap :
              /\ Len(rchecks[n]) = 1
              /\ rchecks[n][1].ComponentId = n
              /\ rchecks[n][1].Output =
                    (IF rmap[n].Error # "" THEN rmap[n].Error ELSE rmap[n].Message)
              /\ Cardinality({i \in 1..Len(rnotes) : rnotes[i] = Note(n)}) =
                    (IF rmap[n].Status = StatusUnhealthy THEN 1 ELSE 0)
        /\ Len(rnotes) =
              Cardinality({n \in DOMAIN rmap : rmap[n].Status = StatusUnhealthy})

\* The handler has responded for a mapping with an unhealthy result that has
\* an error string and a result of unknown status that has only a message.
C26_Witness ==
    /\ rpc = "Responded"
    /\ \E n, k \in DOMAIN rmap :
          /\ n # k
          /\ rmap[n].Status = StatusUnhealthy
          /\ rmap[n].Error = "timeout"
          /\ rmap[n].Message = "OK"
          /\ rmap[k].Status = StatusOther
          /\ rmap[k].Error = ""
          /\ rchecks[n][1].Output = "timeout"
          /\ rchecks[k][1].Output = rmap[k].Message
          /\ rnotes = <<Note(n)>>


\* ==================================================================
\* Properties of the HTTP Server
\* ==================================================================
\* Every goroutine a Start spawned has been scheduled.
ServeSettled == \A c \in Cycles : sgo[c] # "spawned"

\* C23: in every cycle, a Start on a free address with a live context
\* returns nil, and once its goroutine has run the server answers requests
\* until Stop is called; every Stop returns nil, and once the goroutines have
\* run the address is no longer bound; a Start on an address that cannot be
\* bound returns an error.
C23_EveryCycleServes ==
    /\ spc = "StartReturn" => (sret = NoError <=> sfree)
    /\ spc = "StopReturn" => sret = NoError
    /\ (sreg /\ spc = "idle" /\ slast = "Started" /\ ServeSettled) => Answering
    /\ (sreg /\ spc = "idle" /\ slast = "Stopped" /\ ServeSettled) => ~PortBound


\* ==================================================================
\* Properties of the metrics middleware
\* ==================================================================
\* C30: in every interleaving of requests, the in-flight gauge equals the
\* number of requests that have entered the metrics middleware and not left
\* it, whether their handler returned or panicked; it is never negative and
\* it is zero when no request is in progress.
C30_InFlightGauge ==
    /\ minflight = Cardinality({r \in Requests : mpc[r] # "out"})
    /\ minflight >= 0
    /\ (\A r \in Requests : mpc[r] = "out") => minflight = 0

\* A request whose handler panicked is about to leave the middleware while
\* another request is still in its handler.
C30_Witness ==
    \E r, q \in Requests :
        /\ r # q
        /\ mpc[r] = "Defer"
        /\ mstatus[r] = StatusInternalServerError
        /\ mpc[q] = "Handler"
        /\ minflight = 2

====
